---- MODULE Spec2Model ----
(***************************************************************************)
(* A model of the edn reader/writer of src/edn: the abstract syntax        *)
(* (terml terms), the native codec (to_terms / from_terms), the printer    *)
(* (unparse) and the parser (parse).                                       *)
(*                                                                         *)
(* Python objects are records whose field k is the object's class.  The    *)
(* payload of a scalar is text (field v, a TLA+ string): the program only  *)
(* ever parses, prints and compares numbers, it never computes with them.  *)
(* A sequence keeps its items, a set its members, a dict its entries       *)
(* (pairs of a key and a value).                                           *)
(***************************************************************************)
EXTENDS Integers, Sequences, FiniteSets, TLC

----------------------------------------------------------------------------
(* Bounds of the model.                                                    *)

\* Most elements (or map entries) of a collection drawn as an input.
MaxLen == 2
\* Most API calls of one session.
MaxCalls == 3

----------------------------------------------------------------------------
(* Python objects.                                                         *)

None == [k |-> "NoneType"]
PyBool(b) == [k |-> "bool", b |-> b]
PyInt(s) == [k |-> "int", v |-> s]
PyLong(s) == [k |-> "long", v |-> s]
PyFloat(s) == [k |-> "float", v |-> s]
PyDecimal(s) == [k |-> "Decimal", v |-> s]
PyStr(s) == [k |-> "str", v |-> s]
PyUnicode(s) == [k |-> "unicode", v |-> s]
PyTuple(s) == [k |-> "tuple", items |-> s]
PyList(s) == [k |-> "list", items |-> s]
PySet(S) == [k |-> "set", members |-> S]
PyFrozenset(S) == [k |-> "frozenset", members |-> S]
PyDict(P) == [k |-> "dict", entries |-> P]
PyFrozendict(P) == [k |-> "frozendict", entries |-> P]

\* What a call returns, or the exception it raises (about: the value the
\* exception's message names).
Ok(v) == [ok |-> TRUE, exc |-> "none", val |-> v]
Raise(e, about) == [ok |-> FALSE, exc |-> e, val |-> about]

\* The classes an object is an instance of (isinstance).
Mro(x) ==
    CASE x.k = "bool" -> {"bool", "int", "object"}
      [] x.k = "str" -> {"str", "basestring", "object"}
      [] x.k = "unicode" -> {"unicode", "basestring", "object"}
      [] x.k = "point" -> {"point", "tuple", "object"}
      [] x.k = "Term" -> {"Term", "tuple", "object"}
      [] x.k = "frozendict" -> {"frozendict", "dict", "object"}
      [] x.k = "datetime" -> {"datetime", "date", "object"}
      [] OTHER -> {x.k, "object"}

isinstance(x, types) == Mro(x) \cap types # {}

RECURSIVE SetToSeq(_)
SetToSeq(S) ==
    IF S = {} THEN <<>>
    ELSE LET x == CHOOSE y \in S : TRUE IN <<x>> \o SetToSeq(S \ {x})

Reverse(s) == [i \in 1..Len(s) |-> s[Len(s) + 1 - i]]

\* The order in which a set or a dict is iterated is the interpreter's
\* choice: order 0 and order 1 are two of the orders it may take.
Iterate(S, order) == IF order = 0 THEN SetToSeq(S) ELSE Reverse(SetToSeq(S))

Range(s) == {s[i] : i \in 1..Len(s)}

\* Python's ==: x == y iff PyKey(x) = PyKey(y).
RECURSIVE PyKey(_)
PyKey(x) ==
    CASE x.k = "bool" -> PyInt(IF x.b THEN "1" ELSE "0")
      [] x.k = "long" -> PyInt(x.v)
      [] x.k = "unicode" -> PyStr(x.v)
      [] x.k \in {"tuple", "point"} ->
            PyTuple([i \in 1..Len(x.items) |-> PyKey(x.items[i])])
      [] x.k = "list" -> PyList([i \in 1..Len(x.items) |-> PyKey(x.items[i])])
      [] x.k \in {"set", "frozenset"} -> PySet({PyKey(e) : e \in x.members})
      [] x.k \in {"dict", "frozendict"} ->
            PyDict({<<PyKey(p[1]), PyKey(p[2])>> : p \in x.entries})
      [] x.k = "Term" ->
            [k |-> "Term", tag |-> x.tag, data |-> PyKey(x.data),
             args |-> [i \in 1..Len(x.args) |-> PyKey(x.args[i])]]
      [] OTHER -> x

PyEq(x, y) == PyKey(x) = PyKey(y)

\* hash(x) raises TypeError for the mutable containers.
RECURSIVE Hashable(_)
Hashable(x) ==
    CASE x.k \in {"list", "set", "dict"} -> FALSE
      [] x.k \in {"tuple", "point"} ->
            \A i \in 1..Len(x.items) : Hashable(x.items[i])
      [] OTHER -> TRUE

----------------------------------------------------------------------------
(* terml terms: the abstract syntax.                                       *)

Term(tag, data, args) == [k |-> "Term", tag |-> tag, data |-> data, args |-> args]

\* The first failure among a sequence of results, or the list of values.
AllOk(rs) == \A i \in 1..Len(rs) : rs[i].ok
FirstFailure(rs) ==
    rs[CHOOSE i \in 1..Len(rs) : ~rs[i].ok /\ \A j \in 1..(i - 1) : rs[j].ok]
Values(rs) == [i \in 1..Len(rs) |-> rs[i].val]

\* terml.nodes.coerceToTerm, as _ast.py and the term makers use it: a Term
\* is kept, None, True and False become the leaf tags null, true and false,
\* numbers and text become data leaves, a list or tuple becomes a .tuple.
\* term, a set or dict a .bag. term; any other object is a ValueError.
RECURSIVE coerceToTerm(_)
coerceToTerm(val) ==
    CASE val.k = "Term" -> Ok(val)
      [] val.k = "NoneType" -> Ok(Term("null", None, <<>>))
      [] val.k = "bool" -> Ok(Term(IF val.b THEN "true" ELSE "false", None, <<>>))
      [] val.k \in {"int", "long"} -> Ok(Term(".int.", val, <<>>))
      [] val.k = "float" -> Ok(Term(".float64.", val, <<>>))
      [] val.k \in {"str", "unicode"} -> Ok(Term(".String.", val, <<>>))
      [] val.k \in {"list", "tuple", "point"} ->
            LET rs == [i \in 1..Len(val.items) |-> coerceToTerm(val.items[i])]
            IN  IF AllOk(rs) THEN Ok(Term(".tuple.", None, Values(rs)))
                ELSE FirstFailure(rs)
      [] val.k = "set" ->
            LET items == SetToSeq(val.members)
                rs == [i \in 1..Len(items) |-> coerceToTerm(items[i])]
            IN  IF AllOk(rs) THEN Ok(Term(".bag.", None, Values(rs)))
                ELSE FirstFailure(rs)
      [] val.k \in {"dict", "frozendict"} ->
            LET items == SetToSeq(val.entries)
                ks == [i \in 1..Len(items) |-> coerceToTerm(items[i][1])]
                vs == [i \in 1..Len(items) |-> coerceToTerm(items[i][2])]
                rs == [i \in 1..(2 * Len(items)) |->
                          IF i % 2 = 1 THEN ks[(i + 1) \div 2] ELSE vs[i \div 2]]
            IN  IF AllOk(rs)
                THEN Ok(Term(".bag.", None,
                             [i \in 1..Len(items) |->
                                 Term(".attr.", None, <<ks[i].val, vs[i].val>>)]))
                ELSE FirstFailure(rs)
      [] OTHER -> Raise("ValueError", val)

\* termMaker: t.Name(*args) is the term tagged Name whose children are the
\* arguments, each coerced to a term.
termMaker(tag, args) ==
    LET rs == [i \in 1..Len(args) |-> coerceToTerm(args[i])]
    IN  IF AllOk(rs) THEN Ok(Term(tag, None, Values(rs))) ELSE FirstFailure(rs)

\* The term makers of _ast.py, applied to arguments that coerce.
Nil == Term("Nil", None, <<>>)
String(s) == termMaker("String", <<s>>).val
Character(s) == termMaker("Character", <<s>>).val
ExactFloat(s) == termMaker("ExactFloat", <<s>>).val
Symbol(name) == termMaker("Symbol", <<PyStr(name)>>).val
SymbolNs(name, prefix) == termMaker("Symbol", <<PyStr(name), PyStr(prefix)>>).val
Keyword(sym) == termMaker("Keyword", <<sym>>).val
List(items) == termMaker("List", <<PyTuple(items)>>).val
Vector(items) == termMaker("Vector", <<PyTuple(items)>>).val
Set(items) == termMaker("Set", <<PyTuple(items)>>).val
Map(pairs) ==
    termMaker("Map", <<PyTuple([i \in 1..Len(pairs) |-> PyTuple(pairs[i])])>>).val
TaggedValue(tag, value) == termMaker("TaggedValue", <<tag, value>>).val

INST == Symbol("inst")
UUID == Symbol("uuid")

----------------------------------------------------------------------------
(* _extended.py: decoding terms to Python objects.                         *)

\* frozenset(items): equal members (==) are kept once.
RECURSIVE Dedup(_, _)
Dedup(items, acc) ==
    IF items = <<>> THEN acc
    ELSE Dedup(Tail(items),
               IF \E y \in acc : PyEq(Head(items), y) THEN acc
               ELSE acc \cup {Head(items)})

\* dict(pairs): a later value replaces the value of an equal key.
RECURSIVE DictOf(_, _)
DictOf(pairs, acc) ==
    IF pairs = <<>> THEN acc
    ELSE LET key == Head(pairs).items[1]
             val == Head(pairs).items[2]
             old == {p \in acc : PyEq(p[1], key)}
         IN  DictOf(Tail(pairs),
                    (acc \ old) \cup {<<IF old = {} THEN key
                                        ELSE (CHOOSE p \in old : TRUE)[1], val>>})

IsSequence(x) == x.k \in {"tuple", "list", "point"}

\* The callables of _DECODERS applied to the decoded children of a term.
unicode(a) ==
    IF Len(a) = 0 THEN Ok(PyUnicode(""))
    ELSE IF a[1].k \in {"str", "unicode"} THEN Ok(PyUnicode(a[1].v))
    ELSE Raise("TypeError", a[1])
Decimal(a) ==
    IF Len(a) = 1 /\ a[1].k \in {"str", "unicode"}
    THEN Ok(PyDecimal(IF Len(a[1].v) > 0 /\ Head(a[1].v) = "+"
                      THEN Tail(a[1].v) ELSE a[1].v))
    ELSE Raise("TypeError", None)
tuple(a) ==
    IF Len(a) = 0 THEN Ok(PyTuple(<<>>))
    ELSE IF Len(a) = 1 /\ IsSequence(a[1]) THEN Ok(PyTuple(a[1].items))
    ELSE Raise("TypeError", None)
frozenset(a) ==
    IF Len(a) = 0 THEN Ok(PyFrozenset({}))
    ELSE IF Len(a) = 1 /\ IsSequence(a[1])
    THEN IF \A i \in 1..Len(a[1].items) : Hashable(a[1].items[i])
         THEN Ok(PyFrozenset(Dedup(a[1].items, {})))
         ELSE Raise("TypeError", None)
    ELSE Raise("TypeError", None)
frozendict(a) ==
    IF Len(a) = 0 THEN Ok(PyFrozendict({}))
    ELSE IF Len(a) = 1 /\ IsSequence(a[1])
    THEN IF \A i \in 1..Len(a[1].items) :
                /\ IsSequence(a[1].items[i])
                /\ Len(a[1].items[i].items) = 2
                /\ Hashable(a[1].items[i].items[1])
         THEN Ok(PyFrozendict(DictOf(a[1].items, {})))
         ELSE Raise("TypeError", None)
    ELSE Raise("TypeError", None)

\* The tag names _DECODERS has an entry for.
_DECODERS ==
    {".tuple.", "Character", "ExactFloat", "String", "Vector", "List", "Map",
     "Nil", "Set", "Symbol", "Keyword"}

\* A reader, applied to the decoded payload of a tagged value.  parse_date
\* and UUID are the built-in readers; reverse is the caller's reader of the
\* tests (lambda x: list(reversed(x))), first one that returns its argument.
ApplyReader(reader, value) ==
    CASE reader = "parse_date" ->
            IF value.k \in {"str", "unicode"}
            THEN Ok([k |-> "datetime", v |-> value.v])
            ELSE Raise("ParseError", value)
      [] reader = "UUID" ->
            IF value.k \in {"str", "unicode"}
            THEN Ok([k |-> "UUID", v |-> value.v])
            ELSE Raise("AttributeError", value)
      [] reader = "reverse" ->
            IF IsSequence(value) THEN Ok(PyList(Reverse(value.items)))
            ELSE IF value.k \in {"str", "unicode"}
            THEN Ok(PyList([i \in 1..Len(value.v) |->
                     [k |-> value.k,
                      v |-> SubSeq(value.v, Len(value.v) + 1 - i,
                                   Len(value.v) + 1 - i)]]))
            ELSE Raise("TypeError", value)
      [] reader = "first" -> Ok(value)

\* A default handler for tags without a reader: None stands for the generic
\* TaggedValue term maker; second is lambda a, b: b; triple is
\* lambda s, v: ('default', s, v).
ApplyDefault(default, symbol, value) ==
    CASE default = "None" -> termMaker("TaggedValue", <<symbol, value>>)
      [] default = "second" -> Ok(value)
      [] default = "triple" -> Ok(PyTuple(<<PyStr("default"), symbol, value>>))

\* A merge in which the receiver's entries win.
merge_receiver_first(defaults, readers) ==
    [s \in DOMAIN defaults \cup DOMAIN readers |->
        IF s \in DOMAIN defaults THEN defaults[s] ELSE readers[s]]

\* frozendict.merge: the entries of the receiver, overlaid with the
\* argument's.
merge(defaults, readers) ==
    [s \in DOMAIN defaults \cup DOMAIN readers |->
        IF s \in DOMAIN readers THEN readers[s] ELSE defaults[s]]

\* A handler that never consults the readers.
_handle_tagged_value_unread(readers, default, symbol, value) ==
    ApplyDefault(default, symbol, value)

\* _Decoder._handle_tagged_value
_handle_tagged_value(readers, default, symbol, value) ==
    IF \E s \in DOMAIN readers : PyEq(s, symbol)
    THEN ApplyReader(readers[CHOOSE s \in DOMAIN readers : PyEq(s, symbol)], value)
    ELSE ApplyDefault(default, symbol, value)

\* The decoder leafTag found, applied to the decoded children.
ApplyDecoder(name, a, readers, default) ==
    CASE name = ".tuple." -> Ok(PyTuple(a))
      [] name \in {"Character", "String"} -> unicode(a)
      [] name = "ExactFloat" -> Decimal(a)
      [] name \in {"Vector", "List"} -> tuple(a)
      [] name = "Map" -> frozendict(a)
      [] name = "Nil" -> Ok(None)
      [] name = "Set" -> frozenset(a)
      [] name \in {"Symbol", "Keyword"} -> termMaker(name, a)
      [] name = "TaggedValue" ->
            IF Len(a) = 2 THEN _handle_tagged_value(readers, default, a[1], a[2])
            ELSE Raise("TypeError", None)

\* Term.build with a _Decoder as the builder: a data leaf is its data
\* (leafData), any other term is its tag's decoder (leafTag, a ValueError
\* when _DECODERS has none) applied to its children, built first to last.
RECURSIVE build(_, _, _)
build(term, readers, default) ==
    IF term.data # None THEN Ok(term.data)
    ELSE IF term.tag \notin _DECODERS \cup {"TaggedValue"}
    THEN Raise("ValueError", PyStr(term.tag))
    ELSE LET rs == [i \in 1..Len(term.args) |-> build(term.args[i], readers, default)]
         IN  IF AllOk(rs) THEN ApplyDecoder(term.tag, Values(rs), readers, default)
             ELSE FirstFailure(rs)

\* from_terms(term, readers, default), given the built-in readers.
from_terms(defaults, term, readers, default) ==
    IF term.k = "Term" THEN build(term, merge(defaults, readers), default)
    ELSE Ok(term)

----------------------------------------------------------------------------
(* _extended.py: encoding Python objects as terms.                         *)

\* _get_tag_name: the name of obj.tag, when obj has one.
_get_tag_name(obj) == IF obj.k = "Term" THEN obj.tag ELSE "None"

\* repr(obj), for the objects a default handler is handed.
repr(obj) ==
    CASE obj.k = "Custom" -> PyStr("<Custom(" \o obj.v \o ")>")
      [] obj.k = "long" -> PyStr(obj.v \o "L")
      [] obj.k = "date" -> PyStr("datetime.date(" \o obj.v \o ")")
      [] obj.k = "Tag" -> PyStr("Tag(" \o obj.v \o ")")
      [] OTHER -> PyStr("<" \o obj.k \o ">")

\* The transform of a writer, applied to an object of the writer's type:
\* isoformat and str are the built-in writers' transforms, xy is
\* lambda p: (p.x, p.y), strftime is lambda x: x.strftime('%Y-%m-%d'),
\* fields is lambda b: [b.x] (the content of a box, in a list).
ApplyWriter(fn, obj) ==
    CASE fn \in {"isoformat", "str"} -> Ok(PyStr(obj.v))
      [] fn = "strftime" -> Ok(PyStr(SubSeq(obj.v, 1, 10)))
      [] fn = "xy" -> Ok(PyTuple(<<obj.items[1], obj.items[2]>>))
      [] fn = "fields" -> Ok(PyList(obj.items))
      [] fn = "repr" -> Ok(repr(obj))

\* _default_handler raises; repr is the caller's default of the tests;
\* identity is lambda x: x, a default that returns its argument.
ApplyDefaultHandler(default, obj) ==
    CASE default = "_default_handler" -> Raise("ValueError", obj)
      [] default = "repr" -> Ok(repr(obj))
      [] default = "identity" -> Ok(obj)

\* recurse(default(obj)) when default(obj) is obj again: the call repeats
\* itself with the same arguments until the interpreter's recursion limit
\* is reached, and the interpreter raises RuntimeError (maximum recursion
\* depth exceeded).
RecursionLimit(obj) == Raise("RuntimeError", obj)

DEFAULT_WRITERS ==
    << [type |-> "datetime", tag |-> INST, fn |-> "isoformat"],
       [type |-> "UUID", tag |-> UUID, fn |-> "str"] >>

\* The structural rules with the two sequence rules exchanged.
_base_encoding_rules_exchanged ==
    << [types |-> {"str", "unicode"}, rule |-> "String"],
       [types |-> {"dict", "frozendict"}, rule |-> "Map"],
       [types |-> {"set", "frozenset"}, rule |-> "Set"],
       [types |-> {"tuple"}, rule |-> "Vector"],
       [types |-> {"list"}, rule |-> "List"],
       [types |-> {"NoneType"}, rule |-> "Nil"],
       [types |-> {"int", "float"}, rule |-> "identity"],
       [types |-> {"Decimal"}, rule |-> "ExactFloat"] >>

\* The structural rules of to_terms, in the order they are tried.
_base_encoding_rules ==
    << [types |-> {"str", "unicode"}, rule |-> "String"],
       [types |-> {"dict", "frozendict"}, rule |-> "Map"],
       [types |-> {"set", "frozenset"}, rule |-> "Set"],
       [types |-> {"tuple"}, rule |-> "List"],
       [types |-> {"list"}, rule |-> "Vector"],
       [types |-> {"NoneType"}, rule |-> "Nil"],
       [types |-> {"int", "float"}, rule |-> "identity"],
       [types |-> {"Decimal"}, rule |-> "ExactFloat"] >>

TagRules(ws) ==
    [i \in 1..Len(ws) |->
        [types |-> {ws[i].type}, rule |-> "tag", tag |-> ws[i].tag, fn |-> ws[i].fn]]

\* The rules with the structural rules tried before the writers.
rules_structural_first(writers) ==
    LET tagged == TagRules(writers \o DEFAULT_WRITERS)
        n == Len(_base_encoding_rules)
    IN  [i \in 1..(Len(tagged) + n) |->
            IF i > n
            THEN tagged[i - n]
            ELSE [types |-> _base_encoding_rules[i].types,
                  rule |-> _base_encoding_rules[i].rule,
                  tag |-> None, fn |-> "none"]]

\* The rules of to_terms in the order they are tried: the caller's writers,
\* the built-in writers, the structural rules.
rules(writers) ==
    LET tagged == TagRules(writers \o DEFAULT_WRITERS)
    IN  [i \in 1..(Len(tagged) + Len(_base_encoding_rules)) |->
            IF i <= Len(tagged)
            THEN tagged[i]
            ELSE [types |-> _base_encoding_rules[i - Len(tagged)].types,
                  rule |-> _base_encoding_rules[i - Len(tagged)].rule,
                  tag |-> None, fn |-> "none"]]

Matches(obj, rs) == {i \in 1..Len(rs) : isinstance(obj, rs[i].types)}
FirstMatch(obj, rs) ==
    CHOOSE i \in Matches(obj, rs) : \A j \in Matches(obj, rs) : i <= j

\* A Term is a namedtuple (tag, data, args, span): iterated, it yields its
\* Tag object, its data, the tuple of its children and its span (None).
TermFields(term) ==
    <<[k |-> "Tag", v |-> term.tag], term.data, PyTuple(term.args), None>>

\* The writers and the default _make_tag_rule's call of to_terms passes on.
TagRuleWriters(writers) == <<>>
TagRuleDefault(default) == "_default_handler"

RECURSIVE to_terms(_, _, _, _)
to_terms(obj, writers, default, order) ==
    LET recurse(x) == to_terms(x, writers, default, order)
        recurseAll(items) == [i \in 1..Len(items) |-> recurse(items[i])]
        \* a term maker applied to the list of the encoded items
        collect(maker, items) ==
            LET rs == recurseAll(items)
            IN  IF AllOk(rs) THEN termMaker(maker, <<PyList(Values(rs))>>)
                ELSE FirstFailure(rs)
        encoder(r) ==
            CASE r.rule = "tag" ->
                    LET w == ApplyWriter(r.fn, obj)
                        e == to_terms(w.val, TagRuleWriters(writers),
                                      TagRuleDefault(default), order)
                    IN  IF ~w.ok THEN w
                        ELSE IF ~e.ok THEN e
                        ELSE termMaker("TaggedValue", <<r.tag, e.val>>)
              [] r.rule = "String" -> termMaker("String", <<obj>>)
              [] r.rule = "Map" ->
                    LET items == Iterate(obj.entries, order)
                        rs == [i \in 1..(2 * Len(items)) |->
                                  recurse(items[(i + 1) \div 2][2 - (i % 2)])]
                    IN  IF AllOk(rs)
                        THEN termMaker("Map",
                                 <<PyList([i \in 1..Len(items) |->
                                     PyTuple(<<rs[2 * i - 1].val, rs[2 * i].val>>)])>>)
                        ELSE FirstFailure(rs)
              [] r.rule = "Set" -> collect("Set", Iterate(obj.members, order))
              [] r.rule = "List" ->
                    collect("List", IF obj.k = "Term" THEN TermFields(obj)
                                    ELSE obj.items)
              [] r.rule = "Vector" -> collect("Vector", obj.items)
              [] r.rule = "Nil" -> Ok(Nil)
              [] r.rule = "identity" -> Ok(obj)
              [] r.rule = "ExactFloat" -> termMaker("ExactFloat", <<PyStr(obj.v)>>)
    IN  IF _get_tag_name(obj) \in {"Keyword", "Symbol"} THEN Ok(obj)
        ELSE IF Matches(obj, rules(writers)) # {}
        THEN encoder(rules(writers)[FirstMatch(obj, rules(writers))])
        ELSE LET d == ApplyDefaultHandler(default, obj)
             IN  IF ~d.ok THEN d
                 ELSE IF d.val = obj THEN RecursionLimit(obj)
                 ELSE recurse(d.val)

----------------------------------------------------------------------------
(* Text: characters are strings of length one.                             *)

\* The backspace character (0x08), which has no escape in a TLA+ string.
Backspace == ""

CharsOf(s) == {SubSeq(s, i, i) : i \in 1..Len(s)}
DigitChars == <<"0", "1", "2", "3", "4", "5", "6", "7", "8", "9">>
Digits == Range(DigitChars)
DigitVal(c) == (CHOOSE n \in 1..10 : DigitChars[n] = c) - 1

RECURSIVE Zeros(_)
Zeros(n) == IF n <= 0 THEN "" ELSE "0" \o Zeros(n - 1)

RECURSIVE StripLeft(_)
StripLeft(s) == IF s # "" /\ Head(s) = "0" THEN StripLeft(Tail(s)) ELSE s
RECURSIVE StripRight(_)
StripRight(s) ==
    IF s # "" /\ SubSeq(s, Len(s), Len(s)) = "0"
    THEN StripRight(SubSeq(s, 1, Len(s) - 1)) ELSE s

\* The number a text of digits denotes, and the digits of a number.
RECURSIVE NatOf(_)
NatOf(s) ==
    IF s = "" THEN 0
    ELSE 10 * NatOf(SubSeq(s, 1, Len(s) - 1)) + DigitVal(SubSeq(s, Len(s), Len(s)))
RECURSIVE TextOf(_)
TextOf(n) ==
    IF n < 10 THEN DigitChars[n + 1]
    ELSE TextOf(n \div 10) \o DigitChars[(n % 10) + 1]

\* a < b, for two texts of digits without leading zeros.
RECURSIVE DigitsLess(_, _)
DigitsLess(a, b) ==
    IF Len(a) # Len(b) THEN Len(a) < Len(b)
    ELSE IF a = "" THEN FALSE
    ELSE IF Head(a) # Head(b) THEN DigitVal(Head(a)) < DigitVal(Head(b))
    ELSE DigitsLess(Tail(a), Tail(b))

\* The longest prefix of s made of characters of S.
RECURSIVE Span(_, _)
Span(s, S) ==
    IF s # "" /\ Head(s) \in S THEN Head(s) \o Span(Tail(s), S) ELSE ""
After(s, prefix) == SubSeq(s, Len(prefix) + 1, Len(s))
StartsWith(s, prefix) == Len(s) >= Len(prefix) /\ SubSeq(s, 1, Len(prefix)) = prefix

----------------------------------------------------------------------------
(* Python's numbers.  A float is kept as the text of its shortest decimal  *)
(* that reads back as the same float: a decimal of at most 15 significant  *)
(* digits is such a text, and the model's floats are of those only.        *)

\* A decimal: (-1)^neg * 0.digits * 10^point, digits without leading or
\* trailing zeros, empty for zero.
Dec(neg, int, frac, exp) ==
    LET all == int \o frac
        lead == Len(all) - Len(StripLeft(all))
        digits == StripRight(StripLeft(all))
    IN  [neg |-> neg, digits |-> digits,
         point |-> IF digits = "" THEN 0 ELSE Len(int) - lead + exp]

\* A number's text taken apart: sign, integer part, fraction, exponent, the
\* text of the number and the text after it.
ScanEnd(s, n, rest) ==
    [ok |-> n.int # "", sign |-> n.sign, int |-> n.int, hasFrac |-> n.frac # "",
     frac |-> n.frac, hasExp |-> n.edigits # "",
     exp |-> IF n.esign = "-" THEN 0 - NatOf(n.edigits) ELSE NatOf(n.edigits),
     text |-> SubSeq(s, 1, Len(s) - Len(rest)), rest |-> rest]
ScanExpDigits(s, n, esign, edigits, rest) ==
    ScanEnd(s, [sign |-> n.sign, int |-> n.int, frac |-> n.frac,
                esign |-> esign, edigits |-> edigits],
            IF edigits = "" THEN rest ELSE After(rest, "e" \o esign \o edigits))
ScanExpSign(s, n, esign, rest) ==
    ScanExpDigits(s, n, esign,
                  IF rest # "" /\ Head(rest) \in {"e", "E"}
                  THEN Span(After(Tail(rest), esign), Digits) ELSE "",
                  rest)
ScanExp(s, n, rest) ==
    ScanExpSign(s, n,
                IF Len(rest) >= 2 /\ Head(rest) \in {"e", "E"}
                   /\ Head(Tail(rest)) \in {"+", "-"}
                THEN Head(Tail(rest)) ELSE "",
                rest)
ScanFracDigits(s, sign, int, frac, rest) ==
    ScanExp(s, [sign |-> sign, int |-> int, frac |-> frac],
            IF frac = "" THEN rest ELSE After(rest, "." \o frac))
ScanFrac(s, sign, int, rest) ==
    ScanFracDigits(s, sign, int,
                   IF rest # "" /\ Head(rest) = "." THEN Span(Tail(rest), Digits)
                   ELSE "",
                   rest)
ScanInt(s, sign, int) == ScanFrac(s, sign, int, After(s, sign \o int))
ScanSign(s, sign) == ScanInt(s, sign, Span(After(s, sign), Digits))
ScanNumber(s) ==
    ScanSign(s, IF s # "" /\ Head(s) \in {"+", "-"} THEN Head(s) ELSE "")

\* digits + 1, for a text of digits; the text grows when all are nines.
RECURSIVE Successor(_)
Successor(digits) ==
    IF digits = "" THEN "1"
    ELSE LET last == SubSeq(digits, Len(digits), Len(digits))
             init == SubSeq(digits, 1, Len(digits) - 1)
         IN  IF last = "9" THEN Successor(init) \o "0"
             ELSE init \o DigitChars[DigitVal(last) + 2]

\* A decimal rounded to n significant digits, half to even.
RoundTo(d, n) ==
    IF Len(d.digits) <= n THEN d
    ELSE LET keep == SubSeq(d.digits, 1, n)
             rest == SubSeq(d.digits, n + 1, Len(d.digits))
             up == \/ DigitVal(Head(rest)) > 5
                   \/ Head(rest) = "5" /\ Len(rest) > 1
                   \/ rest = "5" /\ DigitVal(SubSeq(keep, n, n)) % 2 = 1
             next == IF up THEN Successor(keep) ELSE keep
         IN  [neg |-> d.neg, digits |-> StripRight(SubSeq(next, 1, n)),
              point |-> IF Len(next) > n THEN d.point + 1 ELSE d.point]

\* The largest finite float is 1.7976931348623157e308, the smallest positive
\* one 5e-324.
IsInf(d) ==
    d.digits # ""
    /\ \/ d.point > 309
       \/ d.point = 309 /\ DigitsLess("17976931348623157" \o Zeros(Len(d.digits) - 17),
                                       d.digits \o Zeros(17 - Len(d.digits)))
IsZero(d) == d.digits = "" \/ d.point < -323

\* A float's text in the %g style of precision n, with .0 added to a text
\* that would read as an integer: repr is of precision 17 with the exponent
\* form from 1e16 on, str of precision 12.  r is the float rounded to n
\* digits.
Formatted(d, r, limit) ==
    LET sign == IF d.neg THEN "-" ELSE ""
        x == r.point - 1
        len == Len(r.digits)
    IN  IF IsInf(d) THEN sign \o "inf"
        ELSE IF IsZero(d) THEN sign \o "0.0"
        ELSE IF x < -4 \/ x >= limit
        THEN sign \o Head(r.digits)
             \o (IF len > 1 THEN "." \o Tail(r.digits) ELSE "")
             \o "e" \o (IF x < 0 THEN "-" ELSE "+")
             \o (IF x > -10 /\ x < 10 THEN "0" ELSE "")
             \o TextOf(IF x < 0 THEN 0 - x ELSE x)
        ELSE IF r.point <= 0 THEN sign \o "0." \o Zeros(0 - r.point) \o r.digits
        ELSE IF r.point >= len THEN sign \o r.digits \o Zeros(r.point - len) \o ".0"
        ELSE sign \o SubSeq(r.digits, 1, r.point) \o "."
                  \o SubSeq(r.digits, r.point + 1, len)
FormatFloat(d, n, limit) == Formatted(d, RoundTo(d, n), limit)

\* The decimal of a scanned number.
DecOf(n) == Dec(n.sign = "-", n.int, n.frac, n.exp)

\* float(text), for the text of a number.
float(text) == PyFloat(FormatFloat(DecOf(ScanNumber(text)), 17, 16))

\* The decimal a float stands for.
DecOfFloat(x) ==
    IF x.v \in {"inf", "-inf"}
    THEN [neg |-> x.v = "-inf", digits |-> "1", point |-> 400]
    ELSE DecOf(ScanNumber(x.v))

\* sys.maxint, on a 64-bit build.
maxint == "9223372036854775807"

\* int(text), for the text of an integer: a long when an int cannot hold it.
IntOf(neg, digits) ==
    IF DigitsLess(IF neg /\ digits # "0" THEN Successor(maxint) ELSE maxint, digits)
    THEN PyLong((IF neg /\ digits # "0" THEN "-" ELSE "") \o digits)
    ELSE PyInt((IF neg /\ digits # "0" THEN "-" ELSE "") \o digits)
IntOfScanned(n) ==
    IntOf(n.sign = "-", IF StripLeft(n.int) = "" THEN "0" ELSE StripLeft(n.int))
int(text) == IntOfScanned(ScanNumber(text))
long(text) == PyLong(int(text).v)

\* str(x), for the objects the printer is handed.
str(x) ==
    CASE x.k = "float" -> FormatFloat(DecOfFloat(x), 12, 12)
      [] x.k = "bool" -> IF x.b THEN "True" ELSE "False"
      [] OTHER -> x.v

----------------------------------------------------------------------------
(* _ast.py: printing terms (unparse).                                      *)

\* _Builder.PRIMITIVES, as leafData applies them: the first rule whose type
\* the data is an instance of prints it.
PRIMITIVES ==
    << [types |-> {"int", "float"}, rule |-> "str"],
       [types |-> {"long"}, rule |-> "strN"],
       [types |-> {"unicode"}, rule |-> "unicode"],
       [types |-> {"str"}, rule |-> "str"] >>

leafData(data) ==
    IF Matches(data, PRIMITIVES) = {} THEN Raise("ValueError", data)
    ELSE LET r == PRIMITIVES[FirstMatch(data, PRIMITIVES)]
         IN  Ok(IF r.rule = "strN" THEN str(data) \o "N" ELSE str(data))

\* Escapes that leave a backspace as it is.
escape_without_backspace(c) ==
    CASE c = "\"" -> "\\\""
      [] c = "\\" -> "\\\\"
      [] c = "\n" -> "\\n"
      [] c = "\r" -> "\\r"
      [] c = "\t" -> "\\t"
      [] c = "\f" -> "\\f"
      [] OTHER -> c

\* The escapes of _dump_String.
escape(c) ==
    CASE c = "\"" -> "\\\""
      [] c = "\\" -> "\\\\"
      [] c = "\n" -> "\\n"
      [] c = "\r" -> "\\r"
      [] c = "\t" -> "\\t"
      [] c = Backspace -> "\\b"
      [] c = "\f" -> "\\f"
      [] OTHER -> c

RECURSIVE Escaped(_)
Escaped(s) == IF s = "" THEN "" ELSE escape(Head(s)) \o Escaped(Tail(s))

_dump_String(obj) == "\"" \o Escaped(obj) \o "\""

RECURSIVE Join(_, _)
Join(elements, sep) ==
    IF elements = <<>> THEN ""
    ELSE IF Len(elements) = 1 THEN elements[1]
    ELSE elements[1] \o sep \o Join(Tail(elements), sep)

\* Elements merged with nothing between them.
_merge_elements_unspaced(elements) == Join(elements, "")

\* _Builder._merge_elements
_merge_elements(elements) == Join(elements, " ")
_wrap(start, end, middle) == start \o Join(middle, "") \o end

\* The text of an exact float printed without its suffix.
_dump_ExactFloat_unsuffixed(obj) == obj

\* _Builder._dump_ExactFloat
_dump_ExactFloat(obj) == obj \o "M"

\* The tags _Builder has a _dump_ method for (.tuple. is merged), with the
\* numbers of arguments the method takes.
Dumpers ==
    [true |-> {0}, false |-> {0}, Nil |-> {0}, Character |-> {1},
     ExactFloat |-> {1}, Keyword |-> {1}, Symbol |-> {1, 2}, TaggedValue |-> {2},
     String |-> {1}]
Wrappers == {"List", "Vector", "Set", "Map"}

\* leafTag's function for a tag, applied to the printed children.
ApplyDumper(tag, a) ==
    CASE tag = ".tuple." -> Ok(_merge_elements(a))
      [] tag \in Wrappers ->
            Ok(_wrap(CASE tag = "List" -> "(" [] tag = "Vector" -> "["
                       [] tag = "Set" -> "#{" [] tag = "Map" -> "{",
                     CASE tag = "List" -> ")" [] tag = "Vector" -> "]"
                       [] OTHER -> "}",
                     a))
      [] Len(a) \notin Dumpers[tag] -> Raise("TypeError", PyStr("_dump_" \o tag))
      [] tag = "true" -> Ok("true")
      [] tag = "false" -> Ok("false")
      [] tag = "Nil" -> Ok("nil")
      [] tag = "Character" -> Ok("\\" \o a[1])
      [] tag = "ExactFloat" -> Ok(_dump_ExactFloat(a[1]))
      [] tag = "Keyword" -> Ok(":" \o a[1])
      [] tag = "Symbol" ->
            Ok(IF Len(a) = 2 /\ a[2] # "" THEN a[2] \o "/" \o a[1] ELSE a[1])
      [] tag = "TaggedValue" -> Ok("#" \o a[1] \o " " \o a[2])
      [] tag = "String" -> Ok(_dump_String(a[1]))

\* Term.build with a _Builder as the builder: the text of a term.
RECURSIVE dump(_)
dump(term) ==
    IF term.data # None THEN leafData(term.data)
    ELSE IF term.tag \notin DOMAIN Dumpers \cup Wrappers \cup {".tuple."}
    THEN Raise("AttributeError", PyStr("_dump_" \o term.tag))
    ELSE LET rs == [i \in 1..Len(term.args) |-> dump(term.args[i])]
         IN  IF AllOk(rs) THEN ApplyDumper(term.tag, Values(rs))
             ELSE FirstFailure(rs)

\* unparse(obj): the text, as a str.
unparse(obj) ==
    LET t == coerceToTerm(obj)
        r == IF t.ok THEN dump(t.val) ELSE t
    IN  IF r.ok THEN Ok(PyStr(r.val)) ELSE r

----------------------------------------------------------------------------
(* The grammar (edn.parsley) and parse.  A rule applied to a text gives    *)
(* the value it recognises at the start of the text and the rest of the    *)
(* text, or fails.                                                         *)

Letters == CharsOf("abcdefghijklmnopqrstuvwxyzABCDEFGHIJKLMNOPQRSTUVWXYZ")
SymbolPunct == CharsOf(".*+!-_?$%&=<>:#")
SymbolChars == Letters \cup Digits \cup SymbolPunct
SymbolStart == (Letters \cup SymbolPunct) \ {":", "#"}
Whitespace == {" ", ",", "\n", "\t", "\r"}

Parsed(v, rest) == [ok |-> TRUE, val |-> v, rest |-> rest]
NoParse == [ok |-> FALSE, val |-> None, rest |-> ""]

\* The binding Float of the grammar.
Float(value, exact) == IF exact THEN ExactFloat(PyStr(value)) ELSE float(value)

\* integer and float: a sign, an integer part without a leading zero, then a
\* fraction, an exponent, both or neither, then M (exact) or N (big).  n is
\* the number scanned, suffix its M or N.
NumberOf(n, suffix, rest) ==
    IF ~n.ok \/ (Len(n.int) > 1 /\ Head(n.int) = "0") THEN NoParse
    ELSE IF rest # "" /\ Head(rest) \in SymbolChars \cup {"/"} THEN NoParse
    ELSE IF suffix = "M" THEN Parsed(Float(n.text, TRUE), rest)
    ELSE IF n.hasFrac \/ n.hasExp
    THEN IF suffix = "N" THEN NoParse ELSE Parsed(Float(n.text, FALSE), rest)
    ELSE IF suffix = "N" THEN Parsed(long(n.text), rest)
    ELSE Parsed(int(n.text), rest)
NumberSuffix(n, suffix) == NumberOf(n, suffix, After(n.rest, suffix))
NumberScanned(n) ==
    NumberSuffix(n, IF n.rest # "" /\ Head(n.rest) \in {"M", "N"} THEN Head(n.rest)
                    ELSE "")
number(s) == NumberScanned(ScanNumber(s))

\* The rules integer and float on their own, as edn(string).integer() and
\* edn(string).float() apply them: integer takes digits and the suffix N,
\* float takes a fraction, an exponent or the suffix M.
IntegerOf_leading_zeros(n, suffix, rest) ==
    IF ~n.ok \/ n.hasFrac \/ n.hasExp \/ suffix = "M" THEN NoParse
    ELSE IF suffix = "N" THEN Parsed(long(n.text), rest)
    ELSE Parsed(int(n.text), rest)
IntegerOf(n, suffix, rest) ==
    IF ~n.ok \/ (Len(n.int) > 1 /\ Head(n.int) = "0") THEN NoParse
    ELSE IF n.hasFrac \/ n.hasExp \/ suffix = "M" THEN NoParse
    ELSE IF suffix = "N" THEN Parsed(long(n.text), rest)
    ELSE Parsed(int(n.text), rest)
IntegerScanned(n) ==
    IntegerOf(n, IF n.rest # "" /\ Head(n.rest) \in {"M", "N"} THEN Head(n.rest)
                 ELSE "",
              IF n.rest # "" /\ Head(n.rest) \in {"M", "N"} THEN Tail(n.rest)
              ELSE n.rest)
integer(s) == IntegerScanned(ScanNumber(s))

FloatOf(n, suffix, rest) ==
    IF ~n.ok \/ (Len(n.int) > 1 /\ Head(n.int) = "0") THEN NoParse
    ELSE IF suffix = "M" THEN Parsed(Float(n.text, TRUE), rest)
    ELSE IF suffix = "" /\ (n.hasFrac \/ n.hasExp)
    THEN Parsed(Float(n.text, FALSE), rest)
    ELSE NoParse
FloatScanned(n) ==
    FloatOf(n, IF n.rest # "" /\ Head(n.rest) \in {"M", "N"} THEN Head(n.rest)
               ELSE "",
            IF n.rest # "" /\ Head(n.rest) \in {"M", "N"} THEN Tail(n.rest)
            ELSE n.rest)
floating(s) == FloatScanned(ScanNumber(s))

\* edn(string).rule(): the value of the rule when it takes the whole string.
Whole(string, r) ==
    IF r.ok /\ r.rest = "" THEN Ok(r.val) ELSE Raise("ParseError", PyStr(string))
ApplyRule(rule, string) ==
    IF rule = "integer" THEN Whole(string, integer(string))
    ELSE Whole(string, floating(string))

\* symbol: constituent characters with at most one /, between a prefix and a
\* name; / alone is a symbol.  tok is the longest run of such characters.
SymbolOf(tok, slashes, rest) ==
    IF tok = "/" THEN Parsed(Symbol("/"), rest)
    ELSE IF tok = "" \/ Head(tok) \notin SymbolStart THEN NoParse
    ELSE IF slashes = <<>> THEN Parsed(Symbol(tok), rest)
    ELSE IF Len(slashes) = 1 /\ slashes[1] < Len(tok)
            /\ SubSeq(tok, slashes[1] + 1, slashes[1] + 1) \in SymbolStart
    THEN Parsed(SymbolNs(SubSeq(tok, slashes[1] + 1, Len(tok)),
                         SubSeq(tok, 1, slashes[1] - 1)),
                rest)
    ELSE NoParse
SymbolToken(s, tok) ==
    SymbolOf(tok, SelectSeq([i \in 1..Len(tok) |-> i],
                            LAMBDA i : SubSeq(tok, i, i) = "/"),
             After(s, tok))
symbol(s) == SymbolToken(s, Span(s, SymbolChars \cup {"/"}))

\* nil, true and false are the symbols of those names.
LiteralOf(r) ==
    IF r.ok /\ r.val = Symbol("nil") THEN Parsed(Nil, r.rest)
    ELSE IF r.ok /\ r.val = Symbol("true") THEN Parsed(PyBool(TRUE), r.rest)
    ELSE IF r.ok /\ r.val = Symbol("false") THEN Parsed(PyBool(FALSE), r.rest)
    ELSE r
literal(s) == LiteralOf(symbol(s))

\* keyword: a colon and a symbol other than /.
KeywordOf(r) ==
    IF r.ok /\ r.val # Symbol("/") THEN Parsed(Keyword(r.val), r.rest) ELSE NoParse
keyword(s) == KeywordOf(symbol(Tail(s)))

\* character: a backslash and one character, or the name of one.
CharNames == [newline |-> "\n", tab |-> "\t", return |-> "\r", space |-> " "]
CharacterOf(t, word) ==
    IF t = "" THEN NoParse
    ELSE IF Len(word) > 1
    THEN IF word \in DOMAIN CharNames
         THEN Parsed(Character(PyUnicode(CharNames[word])), After(t, word))
         ELSE NoParse
    ELSE Parsed(Character(PyUnicode(Head(t))), Tail(t))
character(s) == CharacterOf(Tail(s), Span(Tail(s), Letters \cup Digits))

\* The characters the escapes of a string stand for.
Unescapes == [n |-> "\n", r |-> "\r", t |-> "\t", b |-> Backspace, f |-> "\f"]
unescape(c) == IF c \in {"\"", "\\"} THEN c ELSE Unescapes[c]

\* A character before the rest of a string's characters.
Before(c, r) == IF r.ok THEN Parsed(c \o r.val, r.rest) ELSE NoParse

\* The characters of a string up to its closing quote.
RECURSIVE stringBody(_)
stringBody(s) ==
    IF s = "" THEN NoParse
    ELSE IF Head(s) = "\"" THEN Parsed("", Tail(s))
    ELSE IF Head(s) = "\\"
    THEN IF Len(s) >= 2 /\ SubSeq(s, 2, 2) \in DOMAIN Unescapes \cup {"\"", "\\"}
         THEN Before(unescape(SubSeq(s, 2, 2)), stringBody(SubSeq(s, 3, Len(s))))
         ELSE NoParse
    ELSE Before(Head(s), stringBody(Tail(s)))

StringOf(r) ==
    IF r.ok THEN Parsed(String(PyUnicode(r.val)), r.rest) ELSE NoParse
stringLiteral(s) == StringOf(stringBody(Tail(s)))

\* The text after the end of the line.
RECURSIVE AfterLine(_)
AfterLine(s) ==
    IF s = "" THEN "" ELSE IF Head(s) = "\n" THEN Tail(s) ELSE AfterLine(Tail(s))

Pairs(items) == [i \in 1..(Len(items) \div 2) |-> <<items[2 * i - 1], items[2 * i]>>]

\* list, vector, set and map, of the forms between the brackets.
CollectionOf(open, items) ==
    IF ~items.ok THEN NoParse
    ELSE IF open = "(" THEN Parsed(List(items.val), items.rest)
    ELSE IF open = "[" THEN Parsed(Vector(items.val), items.rest)
    ELSE IF open = "#{" THEN Parsed(Set(items.val), items.rest)
    ELSE IF Len(items.val) % 2 = 0 THEN Parsed(Map(Pairs(items.val)), items.rest)
    ELSE NoParse

\* tag: # and a symbol, whitespace or a comment, then a form.
TaggedOf(tag, value) ==
    IF value.ok THEN Parsed(TaggedValue(tag.val, value.val), value.rest)
    ELSE NoParse

\* A form before the forms that follow it.
Cons(f, more) ==
    IF more.ok THEN Parsed(<<f.val>> \o more.val, more.rest) ELSE NoParse

RECURSIVE form(_), forms(_, _), sep(_), FormsAfter(_, _), FormsFrom(_, _),
          SepAfter(_), Discarded(_), TagGap(_, _), TagSymbol(_)

\* Separators that skip the mark #_ and keep the form behind it.
sep_keeping_discarded(s) ==
    IF s # "" /\ Head(s) \in Whitespace THEN sep(Tail(s))
    ELSE IF s # "" /\ Head(s) = ";" THEN sep(AfterLine(s))
    ELSE IF StartsWith(s, "#_") THEN sep(After(s, "#_"))
    ELSE Parsed(None, s)

\* Whitespace, commas, comments and discarded forms.
SepAfter(f) == IF f.ok THEN sep(f.rest) ELSE NoParse
Discarded(w) == IF w.ok THEN SepAfter(form(w.rest)) ELSE NoParse
sep(s) ==
    IF s # "" /\ Head(s) \in Whitespace THEN sep(Tail(s))
    ELSE IF s # "" /\ Head(s) = ";" THEN sep(AfterLine(s))
    ELSE IF StartsWith(s, "#_") THEN Discarded(sep(After(s, "#_")))
    ELSE Parsed(None, s)

\* The forms up to the closing bracket.
FormsAfter(f, close) == IF f.ok THEN Cons(f, forms(f.rest, close)) ELSE NoParse
FormsFrom(w, close) ==
    IF ~w.ok \/ w.rest = "" THEN NoParse
    ELSE IF Head(w.rest) = close THEN Parsed(<<>>, Tail(w.rest))
    ELSE FormsAfter(form(w.rest), close)
forms(s, close) == FormsFrom(sep(s), close)

TagGap(tag, gap) ==
    IF gap.ok /\ gap.rest # tag.rest THEN TaggedOf(tag, form(gap.rest)) ELSE NoParse
TagSymbol(tag) == IF tag.ok THEN TagGap(tag, sep(tag.rest)) ELSE NoParse

\* One form.
form(s) ==
    IF s = "" THEN NoParse
    ELSE IF Head(s) = "(" THEN CollectionOf("(", forms(Tail(s), ")"))
    ELSE IF Head(s) = "[" THEN CollectionOf("[", forms(Tail(s), "]"))
    ELSE IF Head(s) = "{" THEN CollectionOf("{", forms(Tail(s), "}"))
    ELSE IF StartsWith(s, "#{") THEN CollectionOf("#{", forms(After(s, "#{"), "}"))
    ELSE IF StartsWith(s, "#_") THEN NoParse
    ELSE IF Head(s) = "#" THEN TagSymbol(symbol(Tail(s)))
    ELSE IF Head(s) = "\"" THEN stringLiteral(s)
    ELSE IF Head(s) = "\\" THEN character(s)
    ELSE IF Head(s) = ":" THEN keyword(s)
    ELSE IF Head(s) \in Digits
            \/ (Head(s) \in {"+", "-"} /\ Len(s) >= 2 /\ SubSeq(s, 2, 2) \in Digits)
    THEN number(s)
    ELSE literal(s)

\* parse(string): the one form of the text, with nothing after it.
ParsedAll(string, f, e) ==
    IF e.ok /\ e.rest = "" THEN Ok(f.val) ELSE Raise("ParseError", PyStr(string))
ParsedForm(string, f) == ParsedAll(string, f, SepAfter(f))
ParseFrom(string, w) ==
    IF w.ok THEN ParsedForm(string, form(w.rest))
    ELSE Raise("ParseError", PyStr(string))
parse(string) == ParseFrom(string, sep(string))

\* The rule edn applied at the start of a text that may hold more forms:
\* separators, one form, separators; the rest of the text is left.
EdnAfter(f, e) == IF e.ok THEN Parsed(f.val, e.rest) ELSE NoParse
EdnForm(f) == EdnAfter(f, SepAfter(f))
EdnFrom(w) == IF w.ok THEN EdnForm(form(w.rest)) ELSE NoParse
edn(s) == EdnFrom(sep(s))

----------------------------------------------------------------------------
(* Streams: unparse_stream and dump write to a file-like object,           *)
(* parse_stream and load read one.  A file-like object that is read is its *)
(* text and the position read up to.                                       *)

\* What a call that writes leaves: the text of the file-like object, and
\* what the call returned or raised.
Wrote(out, r) == [output_stream |-> out, result |-> r]

\* unparse_stream(input_elements, output_stream): the text of each element
\* and the separator are written in turn; an element that cannot be
\* printed raises, and what was written before it stays written.
RECURSIVE unparse_stream(_, _)
Written(elements, out, r) ==
    IF r.ok THEN unparse_stream(Tail(elements), out \o r.val.v \o "\n")
    ELSE Wrote(out, r)
unparse_stream(input_elements, out) ==
    IF input_elements = <<>> THEN Wrote(out, Ok(None))
    ELSE Written(input_elements, out, unparse(Head(input_elements)))

\* dump(objs, output_stream, writers, default): each object is encoded when
\* unparse_stream asks for it, then printed and written.
RECURSIVE edn_dump(_, _, _, _, _)
DumpWritten(objs, out, writers, default, order, r) ==
    IF r.ok
    THEN edn_dump(Tail(objs), out \o r.val.v \o "\n", writers, default, order)
    ELSE Wrote(out, r)
DumpEncoded(objs, out, writers, default, order, t) ==
    IF t.ok THEN DumpWritten(objs, out, writers, default, order, unparse(t.val))
    ELSE Wrote(out, t)
edn_dump(objs, out, writers, default, order) ==
    IF objs = <<>> THEN Wrote(out, Ok(None))
    ELSE DumpEncoded(objs, out, writers, default, order,
                     to_terms(Head(objs), writers, default, order))

\* StringIO(text), not yet read: one read() gives all of it.
StringIO(text) == [data |-> text, position |-> 0, cuts |-> {}]

\* A file-like object over a text that arrives in pieces: each read()
\* gives the text up to the next cut, and the empty string at the end.
Pieces(text, cuts) == [data |-> text, position |-> 0, cuts |-> cuts]

\* input_stream.read(): everything from the position to the end of what
\* the object gives at once, and the position moves there.
ReadTo(stream, stop) ==
    [data |-> SubSeq(stream.data, stream.position + 1, stop),
     stream |-> [stream EXCEPT !.position = stop]]
read(stream) ==
    ReadTo(stream,
           IF \E c \in stream.cuts : c > stream.position
           THEN CHOOSE c \in stream.cuts :
                   /\ c > stream.position
                   /\ \A d \in stream.cuts : d > stream.position => c <= d
           ELSE Len(stream.data))

\* _pumpInterpreter(makeInterpreter, data) with iterGrammar's callback: an
\* interpreter of the rule edn receives the chunk; when the rule is done
\* before the end of the chunk its token is appended and a new interpreter
\* receives the rest; an interpreter that reaches the end of the chunk asks
\* for more and is ended, which completes the rule or fails it.  The rule
\* edn ends with separators, so the interpreter of the last form always
\* reaches the end of the chunk.  A failure raises ParseError and the tokens
\* appended before it are never yielded.
RECURSIVE _pumpInterpreter(_)
Pumped(r, rest) == IF rest.ok THEN Ok(<<r.val>> \o rest.val) ELSE rest
Received(dataChunk, r) ==
    IF ~r.ok THEN Raise("ParseError", PyStr(dataChunk))
    ELSE Pumped(r, _pumpInterpreter(r.rest))
_pumpInterpreter(dataChunk) ==
    IF dataChunk = "" THEN Ok(<<>>) ELSE Received(dataChunk, edn(dataChunk))

\* A generator: the function it runs, where it stands (created, suspended
\* at its yield, or finished), the tokens of iterGrammar and the index of
\* the token last yielded.
NoGenerator == [fn |-> "none", state |-> "none", tokens |-> <<>>, index |-> 0]
Generator(fn) == [NoGenerator EXCEPT !.fn = fn, !.state = "created"]

\* What a next() leaves: the generator, the stream, and the value yielded
\* or the exception raised.
Yield(g, stream, tokens, i) ==
    [generator |-> [g EXCEPT !.state = "suspended", !.tokens = tokens,
                             !.index = i],
     input_stream |-> stream, result |-> Ok(tokens[i])]
Finish(g, stream, r) ==
    [generator |-> [g EXCEPT !.state = "finished", !.tokens = <<>>, !.index = 0],
     input_stream |-> stream, result |-> r]
StopIteration == Raise("StopIteration", None)

\* iterGrammar resumed by next(): the tokens left are yielded one at a
\* time; with none left the stream is read, nothing read ends the
\* generator, and what was read is pumped and its first token yielded.  A
\* finished generator raises StopIteration again.
Filled(g, stream, p) ==
    IF ~p.ok THEN Finish(g, stream, p)
    ELSE IF p.val = <<>> THEN Finish(g, stream, StopIteration)
    ELSE Yield(g, stream, p.val, 1)
Refill(g, r) ==
    IF r.data = "" THEN Finish(g, r.stream, StopIteration)
    ELSE Filled(g, r.stream, _pumpInterpreter(r.data))
iterGrammar(g, stream) ==
    IF g.state = "finished" THEN Finish(g, stream, StopIteration)
    ELSE IF g.state = "suspended" /\ g.index < Len(g.tokens)
    THEN Yield(g, stream, g.tokens, g.index + 1)
    ELSE Refill(g, read(stream))

\* load resumed by next(): the next term of parse_stream is decoded and
\* yielded; an exception of from_terms ends the generator.
Decoded(step, r) ==
    IF r.ok THEN [step EXCEPT !.result = r]
    ELSE Finish(step.generator, step.input_stream, r)
Loaded(step, defaults) ==
    IF ~step.result.ok THEN step
    ELSE Decoded(step, from_terms(defaults, step.result.val, [s \in {} |-> "none"],
                                  "None"))
load(g, stream, defaults) ==
    IF g.state = "finished" THEN Finish(g, stream, StopIteration)
    ELSE Loaded(iterGrammar(g, stream), defaults)

\* next(generator)
next(g, stream, defaults) ==
    IF g.fn = "load" THEN load(g, stream, defaults) ELSE iterGrammar(g, stream)

----------------------------------------------------------------------------
(* The inputs of the calls.                                                *)

Seqs(S, n) == UNION {[1..m -> S] : m \in 0..n}
Subsets(S, n) == {T \in SUBSET S : Cardinality(T) <= n}
\* The sets Python can hold: no two members are equal (==).
PySets(S, n) == {T \in Subsets(S, n) : \A x, y \in T : PyEq(x, y) => x = y}
\* The dicts Python can hold: one entry per key.
PyDicts(K, V, n) ==
    {P \in Subsets(K \X V, n) : \A p, q \in P : PyEq(p[1], q[1]) => p = q}

Point(x, y) == [k |-> "point", items |-> <<x, y>>]
Box(x) == [k |-> "box", items |-> <<x>>]
Custom(s) == [k |-> "Custom", v |-> s]
SomeDatetime == [k |-> "datetime", v |-> "2013-12-25T19:32:55+00:00"]
SomeDate == [k |-> "date", v |-> "2013-09-21"]
SomeUUID == [k |-> "UUID", v |-> "f81d4fae-7dec-11d0-a765-00a0c91e6bf6"]

\* Native scalars, and the objects only a writer or a default can encode.
NativeScalars ==
    {None, PyBool(TRUE), PyBool(FALSE), PyInt("1"), PyInt("2"), PyLong("10000"),
     PyFloat("4.2"), PyDecimal("4.2"), PyStr("a"), PyUnicode("b"), Symbol("foo"),
     Keyword(Symbol("foo"))}
NativeExtensions ==
    {SomeDatetime, SomeDate, SomeUUID, Custom("42"),
     Point(PyInt("2"), PyInt("3")), Point(Custom("42"), PyInt("3")),
     Box(Custom("42")), Box(Point(PyInt("2"), PyInt("3"))),
     Box(PyInt("1"))}
\* The members drawn for collections.
NativeMembers ==
    {None, PyBool(TRUE), PyInt("1"), PyStr("a"), Custom("42"),
     Point(PyInt("2"), PyInt("3"))}
NativeInner == {PyInt("1"), PyBool(TRUE), Custom("42")}

NativeColls(S, n) ==
    {PyTuple(s) : s \in Seqs(S, n)} \cup {PyList(s) : s \in Seqs(S, n)}
    \cup {PySet(T) : T \in PySets({x \in S : Hashable(x)}, n)}
    \cup {PyFrozenset(T) : T \in PySets({x \in S : Hashable(x)}, n)}
    \cup {PyDict(P) : P \in PyDicts(S \cap NativeInner, S \cap NativeInner, n)}

\* Objects encoded with a default that returns its argument: objects no
\* rule matches, alone and inside collections, and objects the rules encode.
IdentityObjects ==
    {Custom("42"), PyTuple(<<PyInt("1"), Custom("42")>>), Box(Custom("42")),
     PyList(<<PyList(<<Custom("42")>>)>>), PyInt("1"), PyStr("a"), PyLong("10000"),
     PyTuple(<<PyInt("1"), PyInt("2")>>), Point(PyInt("2"), PyInt("3"))}

\* A set and a dict of two objects that the default repr encodes alike.
EqualEncodings ==
    {PySet({Custom("42"), PyStr("<Custom(42)>")}),
     PyDict({<<Custom("42"), PyInt("1")>>, <<PyStr("<Custom(42)>"), PyInt("2")>>})}

Natives ==
    NativeScalars \cup NativeExtensions \cup NativeColls(NativeMembers, MaxLen)
    \cup NativeColls(NativeColls(NativeInner, 1), 1) \cup EqualEncodings

\* The writers a caller passes.
PointWriter == [type |-> "point", tag |-> Symbol("point"), fn |-> "xy"]
BoxWriter == [type |-> "box", tag |-> Symbol("box"), fn |-> "fields"]
TupleWriter == [type |-> "tuple", tag |-> Symbol("tup"), fn |-> "fields"]
DayWriter == [type |-> "date", tag |-> Symbol("day"), fn |-> "strftime"]
ObjectWriter == [type |-> "object", tag |-> Symbol("obj"), fn |-> "repr"]
WriterLists ==
    {<<>>, <<PointWriter, BoxWriter>>, <<DayWriter>>,
     <<TupleWriter, PointWriter>>, <<PointWriter, TupleWriter>>, <<ObjectWriter>>}
DefaultHandlers == {"_default_handler", "repr"}

\* Abstract syntax values.
Foo == Symbol("foo")
Bar == SymbolNs("bar", "qux")
TermScalars ==
    {Nil, PyBool(TRUE), PyBool(FALSE), PyInt("1"), PyInt("2"), PyFloat("4.2"),
     ExactFloat(PyStr("4.2")), Character(PyStr("a")), String(PyStr("a")),
     String(PyStr("1985-04-12T23:20:50Z")), Foo, Keyword(Foo)}
TermMembers ==
    {Nil, PyBool(TRUE), PyInt("1"), String(PyStr("a")), Character(PyStr("a"))}
TermColls(S, n) ==
    {List(s) : s \in Seqs(S, n)} \cup {Vector(s) : s \in Seqs(S, n)}
    \cup {Set(s) : s \in Seqs(S, n)}
    \cup {Map(s) : s \in Seqs({<<PyInt("1"), PyInt("2")>>, <<Keyword(Foo), Nil>>,
                               <<String(PyStr("a")), PyBool(TRUE)>>}, n)}
TermInner == {PyInt("1"), PyBool(TRUE), ExactFloat(PyStr("4.2"))}
Tags == {Foo, Bar, INST, UUID}
Tagged(S) == {TaggedValue(t, v) : t \in Tags, v \in S}
Untagged ==
    TermScalars \cup TermColls(TermMembers, MaxLen)
    \cup TermColls(TermColls(TermInner, 1), 1)
\* The dates and ids of the tests, tagged, and a vector of both.
SomeInst == TaggedValue(INST, String(PyStr("1985-04-12T23:20:50Z")))
SomeId == TaggedValue(UUID, String(PyStr("f81d4fae-7dec-11d0-a765-00a0c91e6bf6")))
TestTerms ==
    {TaggedValue(Foo, Vector(<<PyInt("1"), PyInt("2")>>)),
     Vector(<<SomeInst, SomeId>>), Map(<<<<SomeId, SomeInst>>>>)}
\* Sets and maps whose members are different Values that _DECODERS decodes
\* with one decoder: a List and a Vector, a String and a Character.
AlikeTerms ==
    {Set(<<List(<<PyInt("1")>>), Vector(<<PyInt("1")>>)>>),
     Set(<<Vector(<<>>), List(<<>>), Nil>>),
     Map(<<<<List(<<PyInt("1")>>), PyInt("1")>>, <<Vector(<<PyInt("1")>>), PyInt("2")>>>>),
     Map(<<<<String(PyStr("a")), PyInt("1")>>, <<Character(PyStr("a")), PyInt("2")>>>>),
     Map(<<<<PyInt("1"), Nil>>, <<Keyword(Foo), Nil>>>>)}
Terms ==
    Untagged \cup TestTerms \cup AlikeTerms \cup Tagged(TermScalars \cup TermColls(TermInner, 1))
    \cup Tagged(Tagged({PyInt("1"), String(PyStr("a"))}))
    \cup TermColls(Tagged({String(PyStr("a")), Vector(<<PyInt("1"), PyInt("2")>>)}), 1)

\* The texts handed to parse: scalars, texts that are not edn, collections
\* of a few elements, and the texts of the tests.
ScalarTexts ==
    {"nil", "true", "false", "0", "-0", "+10", "10000N", "99999999999999999999",
     "3.2", "+4.7", "-11.8e2", "97.4E-02", "0.3", "-0.0", "1.0000000000001",
     "1e16", "1e999", "4.7M", "+4.7M", "32M", "97.4E-02M", "\\c", "\\newline",
     "\\space", "\"foo\"", "\"a\nb\"", "\"a\\nb\"", "\"q\\\"q\\\\\"", "\"\\t\\r\"",
     "\"\\b\\f\"", "\"x" \o Backspace \o "\"",
     "foo", "foo/bar", "/", ".foo", "+foo", ":foo", ":my/foo"}
BadTexts ==
    {"", "04", "04M", "4.", "-023.0", "foo/", "/foo", "#foo", "\\foo", "\"abc",
     "{1}", "[1", "9a", ":/", "1 2", "#_1", "foo^bar"}
ElementTexts == {"1", "nil", "true", "\"a\"", ":k", "3.2"}
Brackets == {<<"(", ")">>, <<"[", "]">>, <<"#{", "}">>, <<"{", "}">>}
CollectionTexts ==
    {b[1] \o Join(s, " ") \o b[2] : b \in Brackets, s \in Seqs(ElementTexts, MaxLen)}
TestTexts ==
    {"[[1] (2)]", "{[1] {2 3}, (4 5 6), 7}", "#{#{1 2} 3}", "(((foo) bar)\n\t baz)",
     "#foo/bar baz", "#foo     baz", "#foo\n  baz", "#foo ; comment\nbar",
     "#foo [1 2]", "#foo true", "#inst \"1985-04-12T23:20:50Z\"", "#foo #bar 1",
     "; foo bar baz bax\nbar ; this is bar\n", "[1 2 #_foo 3]", "{1 2, 3 4}",
     "#{1 2 3}", " 1 ", "[1,2]", "[\\space \\a]", "[0.1 1.5e300]"}
\* Set and map literals spelt from their elements and pairs, and the
\* literals that hold the elements or pairs of a literal in another order.
PairTexts == {"1 2", "3 4", ":k nil"}
SetLiteral(s) == "#{" \o Join(s, " ") \o "}"
MapLiteral(s) == "{" \o Join(s, ", ") \o "}"
MapTexts == {MapLiteral(s) : s \in Seqs(PairTexts, MaxLen)}
Permuted(s, p) == [i \in 1..Len(s) |-> s[p[i]]]
Orders(s) == {Permuted(s, p) : p \in Permutations(1..Len(s))}
Reorderings(text) ==
    UNION ({{SetLiteral(o) : o \in Orders(s)} :
               s \in {s \in Seqs(ElementTexts, MaxLen) : SetLiteral(s) = text}}
           \cup {{MapLiteral(o) : o \in Orders(s)} :
                    s \in {s \in Seqs(PairTexts, MaxLen) : MapLiteral(s) = text}})
\* Collections with a discard at each position: the elements, the forms
\* discarded, and texts that are not a form.
DiscardElements == {"1", "nil"}
DiscardedForms == {"3", "[x]"}
MalformedForms == {")", "04", "\"abc"}
Inserted(s, k, x) == SubSeq(s, 1, k) \o <<x>> \o SubSeq(s, k + 1, Len(s))
Collection(b, s) == b[1] \o Join(s, " ") \o b[2]
DiscardText(b, s, k, d) == Collection(b, Inserted(s, k, "#_" \o d))
DiscardsIn(b, s) ==
    {DiscardText(b, s, k, d) :
        k \in 0..Len(s), d \in DiscardedForms \cup MalformedForms}
DiscardSeqs ==
    {<<>>} \cup {<<x>> : x \in DiscardElements}
    \cup {<<x, y>> : x, y \in DiscardElements}
DiscardTexts ==
    UNION {DiscardsIn(b, s) : b \in Brackets, s \in DiscardSeqs}
\* The literals of the tests of the number rules, and their like.
NumberTexts ==
    {"-0", "-10", "10", "+10", "4", "10000N", "0", "0N", "3.2", "+4.7", "+4.7M",
     "-11.8", "-11.8e2", "97.4E-02", "97.4E-02M", "32M", "0M", "0.5", "1e5",
     "04M", "04.51", "-023.0", "04", "00", "007N", "+01.5M", "00.1", "01e5",
     "4N", "3.2N", "4M"}
Texts ==
    ScalarTexts \cup BadTexts \cup CollectionTexts \cup TestTexts \cup MapTexts
    \cup DiscardTexts

\* The readers a caller passes, and its default for unknown tags.
NoReaders == [s \in {} |-> "none"]
ReaderTables ==
    {NoReaders, (Foo :> "reverse"), (INST :> "first"),
     (Foo :> "first") @@ (Bar :> "reverse")}
TagDefaults == {"None", "second", "triple"}

----------------------------------------------------------------------------
(* The session: a sequence of API calls.                                   *)

VARIABLES
    log,              \* the calls made, each with what it returned or raised
    DEFAULT_READERS,  \* the module-level table of built-in tag readers
    output_stream,    \* the text written to the file-like object of a dump
    input_stream,     \* the file-like object a stream is parsed from
    generator         \* the iterator parse_stream or load returned

streams == <<output_stream, input_stream, generator>>
vars == <<log, DEFAULT_READERS, output_stream, input_stream, generator>>

Last == log[Len(log)]

Call(fn, arg) ==
    [fn |-> fn, arg |-> arg, readers |-> NoReaders, default |-> "None",
     writers |-> <<>>, order |-> 0]

Record(c, r) == log' = Append(log, [call |-> c, result |-> r])

\* DEFAULT_READERS as the module defines it.
BuiltinReaders == (INST :> "parse_date") @@ (UUID :> "UUID")

\* DEFAULT_READERS, had from_terms updated the table in place.
ReadersUpdatedInPlace(defaults, readers) == merge(defaults, readers)

\* DEFAULT_READERS after from_terms has merged the caller's readers into a
\* new table: merge leaves its receiver as it was.
ReadersAfterMerge(defaults, readers) == defaults

Init ==
    /\ log = <<>>
    /\ DEFAULT_READERS = BuiltinReaders
    /\ output_stream = ""
    /\ input_stream = StringIO("")
    /\ generator = NoGenerator

\* to_terms(obj, writers, default)
ToTerms(obj, writers, default, order) ==
    /\ Len(log) = 0
    /\ Record([Call("to_terms", obj) EXCEPT !.writers = writers,
                    !.default = default, !.order = order],
              to_terms(obj, writers, default, order))
    /\ UNCHANGED <<DEFAULT_READERS, output_stream, input_stream, generator>>

\* from_terms(term, readers, default)
FromTerms(term, readers, default) ==
    /\ Len(log) = 0
    /\ Record([Call("from_terms", term) EXCEPT !.readers = readers,
                    !.default = default],
              from_terms(DEFAULT_READERS, term, readers, default))
    /\ DEFAULT_READERS' = ReadersAfterMerge(DEFAULT_READERS, readers)
    /\ UNCHANGED streams

\* from_terms(t), t being the term the last call, a to_terms, returned.
DecodeEncoded ==
    /\ Len(log) \in 1..(MaxCalls - 1)
    /\ Last.call.fn = "to_terms"
    /\ Last.result.ok
    /\ Record(Call("from_terms", Last.result.val),
              from_terms(DEFAULT_READERS, Last.result.val, NoReaders, "None"))
    /\ DEFAULT_READERS' = ReadersAfterMerge(DEFAULT_READERS, NoReaders)
    /\ UNCHANGED streams

\* from_terms(term), term being the term of the last call, a from_terms
\* with readers or a default of the caller's.
FromTermsAgain ==
    /\ Len(log) \in 1..(MaxCalls - 1)
    /\ Last.call.fn = "from_terms"
    /\ Last.call.readers # NoReaders \/ Last.call.default # "None"
    /\ Record(Call("from_terms", Last.call.arg),
              from_terms(DEFAULT_READERS, Last.call.arg, NoReaders, "None"))
    /\ DEFAULT_READERS' = ReadersAfterMerge(DEFAULT_READERS, NoReaders)
    /\ UNCHANGED streams

\* parse(string)
Parse(string) ==
    /\ Len(log) = 0
    /\ Record(Call("parse", PyStr(string)), parse(string))
    /\ UNCHANGED <<DEFAULT_READERS, output_stream, input_stream, generator>>

\* unparse(v), v being the value the last call, a parse, returned.
UnparseParsed ==
    /\ Len(log) \in 1..(MaxCalls - 1)
    /\ Last.call.fn = "parse"
    /\ Last.result.ok
    /\ Record(Call("unparse", Last.result.val), unparse(Last.result.val))
    /\ UNCHANGED <<DEFAULT_READERS, output_stream, input_stream, generator>>

\* parse(text), text being what the last call, an unparse, returned.
ParsePrinted ==
    /\ Len(log) \in 1..(MaxCalls - 1)
    /\ Last.call.fn = "unparse"
    /\ Last.result.ok
    /\ Record(Call("parse", Last.result.val), parse(Last.result.val.v))
    /\ UNCHANGED <<DEFAULT_READERS, output_stream, input_stream, generator>>

\* parse(string), string being the set or map literal of the first call, a
\* parse, with its elements or pairs in another order.
ParseReordered ==
    /\ Len(log) = 1
    /\ Last.call.fn = "parse"
    /\ \E string \in Reorderings(Last.call.arg.v) \ {Last.call.arg.v} :
          Record(Call("parse", PyStr(string)), parse(string))
    /\ UNCHANGED <<DEFAULT_READERS, output_stream, input_stream, generator>>

\* edn(string).integer() and edn(string).float()
ParseRule(rule, string) ==
    /\ Len(log) = 0
    /\ Record(Call(rule, PyStr(string)), ApplyRule(rule, string))
    /\ UNCHANGED <<DEFAULT_READERS, output_stream, input_stream, generator>>

Next ==
    \/ \E string \in Texts : Parse(string)
    \/ \E rule \in {"integer", "float"}, string \in NumberTexts :
          ParseRule(rule, string)
    \/ ParseReordered
    \/ UnparseParsed
    \/ ParsePrinted
    \/ \E obj \in Natives, writers \in WriterLists, default \in DefaultHandlers,
          order \in {0, 1} : ToTerms(obj, writers, default, order)
    \/ \E obj \in IdentityObjects, writers \in {<<>>, <<PointWriter, BoxWriter>>} :
          ToTerms(obj, writers, "identity", 0)
    \/ \E term \in Terms, readers \in ReaderTables, default \in TagDefaults :
          FromTerms(term, readers, default)
    \/ DecodeEncoded
    \/ FromTermsAgain

Spec == Init /\ [][Next]_vars

----------------------------------------------------------------------------
(* The session of a stream: one call that writes a sequence, or a call     *)
(* that makes an iterator over a source and the requests made of it.       *)

\* The requests made of one iterator.
MaxRequests == 7

\* The values handed to unparse_stream and the objects handed to dump.
StreamValues ==
    {Nil, PyInt("1"), Foo, String(PyStr("bar")), String(PyStr("a\nb")),
     Character(PyStr("a")), Character(PyStr("\n")),
     Vector(<<PyInt("1"), PyInt("2")>>), Custom("42")}
DumpObjects ==
    {PyInt("1"), PyStr("a"), PyBool(TRUE), PyTuple(<<PyInt("2"), PyInt("3")>>),
     Point(PyInt("2"), PyInt("3")), Custom("42")}
DumpWriters == {<<>>, <<PointWriter, BoxWriter>>}

\* The sources: forms separated by one space, the texts of the tests,
\* sources that hold no form, sources with separators after the last form,
\* and sources that end within a form or are not edn.  (No source ends
\* within a discarded form.)
FormTexts == {"1", "nil", "\"a\"", ":k", "[x]", "true"}
TestSources ==
    {"1 2 #{4 5} \"foo\" [bar qux]", "#{1 2 3}", "#{1 2 3} \"foo\"\n43,32",
     "#foo [1 2] #foo [3 4]", "#inst \"1985-04-12T23:20:50Z\" 1"}
EmptySources == {"", " ", "\n", ",", "; c\n", "; c", " ,\n"}
TrailingSources == {"1 ", "1\n", "[1 2]\n", "1 2\n", "foo ; c\n", "\"a\" , "}
CutSources == {"[1", "1 [", "\"abc", "1 \"abc", "{1", "(1 2", "#foo", "1 #{2"}
BadSources == {")", "1 )", "1 2 04", "{1}", "[true]", "1 [true] 2", "#foo 1"}
Sources ==
    {Join(s, " ") : s \in Seqs(FormTexts, MaxLen)} \cup TestSources
    \cup EmptySources \cup TrailingSources \cup CutSources \cup BadSources

\* The texts that arrive in pieces, and the places they are cut at: up to
\* MaxLen cuts inside the text.
CutTexts == {"12", "1 2", "[1 2]", "foo", ":k 1", "\"a b\"", "4.5 x", "1 [", "1 2 3"}
Cuts(text) == {c \in SUBSET (1..(Len(text) - 1)) : Cardinality(c) \in 1..MaxLen}

TheGenerator == [k |-> "generator"]

Sink(c, w) ==
    /\ output_stream' = w.output_stream
    /\ Record(c, w.result)

\* unparse_stream(input_elements, output_stream), output_stream a StringIO()
UnparseStream(input_elements) ==
    /\ Len(log) = 0
    /\ Sink(Call("unparse_stream", PyTuple(input_elements)),
            unparse_stream(input_elements, output_stream))
    /\ UNCHANGED <<DEFAULT_READERS, input_stream, generator>>

\* dump(objs, output_stream, writers, default), output_stream a StringIO()
Dump(objs, writers, default, order) ==
    /\ Len(log) = 0
    /\ Sink([Call("dump", PyTuple(objs)) EXCEPT !.writers = writers,
                  !.default = default, !.order = order],
            edn_dump(objs, output_stream, writers, default, order))
    /\ UNCHANGED <<DEFAULT_READERS, input_stream, generator>>

\* parse_stream(StringIO(text)): a generator that has not run yet.
ParseStream(text) ==
    /\ Len(log) = 0
    /\ input_stream' = StringIO(text)
    /\ generator' = Generator("parse_stream")
    /\ Record(Call("parse_stream", PyStr(text)), Ok(TheGenerator))
    /\ UNCHANGED <<DEFAULT_READERS, output_stream>>

\* parse_stream(stream), stream giving the text in the pieces the cuts
\* make: a generator that has not run yet.
ParseStreamPieces(text, cuts) ==
    /\ Len(log) = 0
    /\ input_stream' = Pieces(text, cuts)
    /\ generator' = Generator("parse_stream")
    /\ Record(Call("parse_stream", PyStr(text)), Ok(TheGenerator))
    /\ UNCHANGED <<DEFAULT_READERS, output_stream>>

\* load(StringIO(text)): a generator that has not run yet.
Load(text) ==
    /\ Len(log) = 0
    /\ input_stream' = StringIO(text)
    /\ generator' = Generator("load")
    /\ Record(Call("load", PyStr(text)), Ok(TheGenerator))
    /\ UNCHANGED <<DEFAULT_READERS, output_stream>>

Resumed(step) ==
    /\ generator' = step.generator
    /\ input_stream' = step.input_stream
    /\ Record(Call("next", TheGenerator), step.result)

\* next(generator)
NextValue ==
    /\ generator.state # "none"
    /\ Len(log) <= MaxRequests
    /\ Resumed(next(generator, input_stream, DEFAULT_READERS))
    /\ UNCHANGED <<DEFAULT_READERS, output_stream>>

StreamNext ==
    \/ \E input_elements \in Seqs(StreamValues, MaxLen) :
          UnparseStream(input_elements)
    \/ \E objs \in Seqs(DumpObjects, MaxLen), writers \in DumpWriters,
          default \in DefaultHandlers, order \in {0, 1} :
          Dump(objs, writers, default, order)
    \/ \E text \in Sources : ParseStream(text)
    \/ \E text \in Sources : Load(text)
    \/ \E text \in CutTexts : \E cuts \in Cuts(text) :
          ParseStreamPieces(text, cuts)
    \/ NextValue

StreamSpec == Init /\ [][StreamNext]_vars

----------------------------------------------------------------------------
(* The session of a text: a value is printed and the text parsed, or a     *)
(* text is loaded and the value dumped.                                    *)

\* dumps(obj, writers, default): unparse(to_terms(obj, writers, default))
DumpsEncoded(t) == IF t.ok THEN unparse(t.val) ELSE t
dumps(obj, writers, default, order) ==
    DumpsEncoded(to_terms(obj, writers, default, order))

\* The terms handed to unparse and the objects handed to dumps: values of
\* every kind, and symbols, keywords and characters of any text.
OddSymbols ==
    {Symbol("foo bar"), Symbol(""), Symbol("1a"), SymbolNs("bar", ""),
     Keyword(Symbol("foo bar")), Keyword(Symbol(""))}
OddCharacters ==
    {Character(PyStr(" ")), Character(PyStr("\n")), Character(PyStr("ab")),
     Character(PyStr("")), Character(PyUnicode("\t"))}
PrintedTerms ==
    Untagged \cup Tagged({PyInt("1"), Vector(<<PyInt("1"), PyInt("2")>>)})
    \cup OddSymbols \cup OddCharacters \cup {PyFloat("inf")}
DumpedObjects ==
    NativeScalars \cup NativeColls(NativeInner, 1) \cup OddSymbols
    \cup {PyFloat("inf")}

\* unparse(obj)
Unparse(obj) ==
    /\ Len(log) = 0
    /\ Record(Call("unparse", obj), unparse(obj))
    /\ UNCHANGED <<DEFAULT_READERS, output_stream, input_stream, generator>>

\* dumps(obj, writers, default)
Dumps(obj, writers, default, order) ==
    /\ Len(log) = 0
    /\ Record([Call("dumps", obj) EXCEPT !.writers = writers,
                    !.default = default, !.order = order],
              dumps(obj, writers, default, order))
    /\ UNCHANGED <<DEFAULT_READERS, output_stream, input_stream, generator>>

\* parse(text), text being what the last call, a dumps, returned.
ParseDumped ==
    /\ Len(log) \in 1..(MaxCalls - 1)
    /\ Last.call.fn = "dumps"
    /\ Last.result.ok
    /\ Record(Call("parse", Last.result.val), parse(Last.result.val.v))
    /\ UNCHANGED <<DEFAULT_READERS, output_stream, input_stream, generator>>

\* loads(string, readers, default): from_terms of parse(string).
LoadsParsed(defaults, t, readers, default) ==
    IF t.ok THEN from_terms(defaults, t.val, readers, default) ELSE t
loads(defaults, string, readers, default) ==
    LoadsParsed(defaults, parse(string), readers, default)

\* The texts handed to loads: forms of every kind as the printer spells
\* them, forms with a tag that has no reader, and texts that are not edn.
LoadedTexts ==
    {"nil", "true", "1", "10000N", "3.2", "4.7M", "\\c", "\"foo\"", "foo", ":foo",
     "(1 2)", "[1 2]", "[]", "#{1}", "#{1 2}", "{1 2}", "{:k [1]}", "[\"a\" nil]",
     "#foo 1", "#foo [1 2]", "#inst \"1985-04-12T23:20:50Z\"", "[1", ""}

\* loads(string)
Loads(string) ==
    /\ Len(log) = 0
    /\ Record(Call("loads", PyStr(string)),
              loads(DEFAULT_READERS, string, NoReaders, "None"))
    /\ UNCHANGED <<DEFAULT_READERS, output_stream, input_stream, generator>>

\* dumps(obj), obj being what the last call, a loads, returned.
DumpsLoaded ==
    /\ Len(log) \in 1..(MaxCalls - 1)
    /\ Last.call.fn = "loads"
    /\ Last.result.ok
    /\ Record(Call("dumps", Last.result.val),
              dumps(Last.result.val, <<>>, "_default_handler", 0))
    /\ UNCHANGED <<DEFAULT_READERS, output_stream, input_stream, generator>>

TextNext ==
    \/ \E obj \in PrintedTerms : Unparse(obj)
    \/ \E obj \in DumpedObjects, writers \in {<<>>, <<ObjectWriter>>},
          default \in DefaultHandlers, order \in {0, 1} :
          Dumps(obj, writers, default, order)
    \/ ParsePrinted
    \/ ParseDumped
    \/ \E string \in LoadedTexts : Loads(string)
    \/ DumpsLoaded

TextSpec == Init /\ [][TextNext]_vars

----------------------------------------------------------------------------
(* Properties of the codec.                                                *)

IsCall(i, fn) == i \in 1..Len(log) /\ log[i].call.fn = fn
IsTaggedValue(t) == t.k = "Term" /\ t.tag = "TaggedValue" /\ Len(t.args) = 2
\* The from_terms calls whose term is a tagged value.
TaggedCalls == {i \in 1..Len(log) : IsCall(i, "from_terms") /\ IsTaggedValue(log[i].call.arg)}

\* The tag symbols of the tagged values within a term.
RECURSIVE TagsIn(_)
TagsIn(t) ==
    IF t.k # "Term" THEN {}
    ELSE (IF IsTaggedValue(t) THEN {t.args[1]} ELSE {})
         \cup UNION {TagsIn(t.args[i]) : i \in 1..Len(t.args)}

\* The native values built only from the built-in structural types.
RECURSIVE Structural(_)
Structural(x) ==
    CASE x.k \in {"NoneType", "bool", "int", "long", "float", "Decimal", "str",
                  "unicode"} -> TRUE
      [] x.k \in {"tuple", "list"} -> \A i \in 1..Len(x.items) : Structural(x.items[i])
      [] x.k \in {"set", "frozenset"} -> \A m \in x.members : Structural(m)
      [] x.k = "dict" -> \A p \in x.entries : Structural(p[1]) /\ Structural(p[2])
      [] OTHER -> FALSE

\* C2: for every native value x built only from the built-in structural
\* types, to_terms(x) returns a term and from_terms of that term returns a
\* value equal (==) to x.
C2_Idempotence ==
    \A i \in 1..Len(log) :
        (/\ IsCall(i, "to_terms")
         /\ Structural(log[i].call.arg)
         /\ log[i].call.writers = <<>>
         /\ log[i].call.default = "_default_handler")
        => /\ log[i].result.ok
           /\ i < Len(log) =>
                /\ log[i + 1].result.ok
                /\ PyEq(log[i + 1].result.val, log[i].call.arg)

C4_DecodeNeverFails ==
    \A i \in 1..Len(log) :
        (/\ IsCall(i, "from_terms")
         /\ \A t \in TagsIn(log[i].call.arg) :
               LET table == merge(BuiltinReaders, log[i].call.readers)
               IN  t \in DOMAIN table => table[t] = "first")
        => log[i].result.ok

\* C5: DEFAULT_READERS is never changed, and a from_terms call that follows a
\* call made with readers of the caller's returns what it returns under the
\* built-in table alone: a tag the built-in table lacks goes to the generic
\* TaggedValue, not to the earlier call's reader.
C5_ReadersNotMutated ==
    /\ DEFAULT_READERS = BuiltinReaders
    /\ \A i \in 2..Len(log) :
          (IsCall(i, "from_terms") /\ IsCall(i - 1, "from_terms"))
          => LET c == log[i].call
                 d == build(c.arg.args[2], BuiltinReaders, "None")
             IN  /\ log[i].result =
                       from_terms(BuiltinReaders, c.arg, c.readers, c.default)
                 /\ (/\ IsTaggedValue(c.arg)
                     /\ c.arg.args[1] \notin DOMAIN BuiltinReaders
                     /\ c.readers = NoReaders /\ c.default = "None"
                     /\ d.ok)
                    => log[i].result = termMaker("TaggedValue", <<c.arg.args[1], d.val>>)

\* loads('#foo [1 2]', {foo: reverse}) then loads('#foo [1 2]').
C5_Witness ==
    /\ Len(log) = 2
    /\ log[1].call.arg = TaggedValue(Foo, Vector(<<PyInt("1"), PyInt("2")>>))
    /\ log[1].call.readers = (Foo :> "reverse")
    /\ log[1].result = Ok(PyList(<<PyInt("2"), PyInt("1")>>))
    /\ log[2].call.arg = log[1].call.arg
    /\ log[2].result =
          Ok(TaggedValue(Foo, PyTuple(<<PyInt("1"), PyInt("2")>>)))

\* What the overlaid table gives for one tagged value: the caller's reader
\* when the caller has one for the tag, else the built-in one.
Overlaid(c, t) ==
    LET tag == t.args[1]
        d == build(t.args[2], merge(BuiltinReaders, c.readers), c.default)
    IN  IF tag \in DOMAIN c.readers THEN ApplyReader(c.readers[tag], d.val)
        ELSE ApplyReader(BuiltinReaders[tag], d.val)
HasReader(c, t) ==
    /\ IsTaggedValue(t)
    /\ t.args[1] \in DOMAIN c.readers \cup DOMAIN BuiltinReaders
    /\ build(t.args[2], merge(BuiltinReaders, c.readers), c.default).ok

\* C6: a tagged value is read by the caller's reader when the caller gave one
\* for its tag, also when the tag has a built-in reader, and by the built-in
\* reader when the caller gave none for it, whatever else the caller gave.
C6_ReadersOverlay ==
    \A i \in 1..Len(log) :
        IsCall(i, "from_terms") =>
            LET c == log[i].call
                elems == IF c.arg.k = "Term" /\ c.arg.tag = "Vector"
                         THEN c.arg.args[1].args ELSE <<>>
            IN  /\ HasReader(c, c.arg) => log[i].result = Overlaid(c, c.arg)
                /\ (/\ elems # <<>>
                    /\ \A j \in 1..Len(elems) :
                          HasReader(c, elems[j]) /\ Overlaid(c, elems[j]).ok)
                   => log[i].result =
                         Ok(PyTuple([j \in 1..Len(elems) |-> Overlaid(c, elems[j]).val]))

\* [#inst "..." #uuid "..."] read with a caller's reader for inst only: the
\* date text is handed to the caller's reader, the id to the built-in one.
C6_Witness ==
    /\ Len(log) = 1
    /\ log[1].call.arg = Vector(<<SomeInst, SomeId>>)
    /\ log[1].call.readers = (INST :> "first")
    /\ log[1].result =
          Ok(PyTuple(<<PyUnicode("1985-04-12T23:20:50Z"), SomeUUID>>))

IsSymbolOrKeyword(x) == x.k = "Term" /\ x.tag \in {"Symbol", "Keyword"}
\* The writers among ws whose type obj is an instance of, first to last.
Matching(obj, ws) == {j \in 1..Len(ws) : isinstance(obj, {ws[j].type})}
First(S) == CHOOSE j \in S : \A m \in S : j <= m
StructuralTypes ==
    {"str", "unicode", "dict", "frozendict", "set", "frozenset", "tuple", "list",
     "NoneType", "int", "float", "Decimal"}
IsTaggedWith(r, tag) == r.ok => IsTaggedValue(r.val) /\ r.val.args[1] = tag

\* C7: to_terms returns a Symbol or Keyword unchanged, whatever the writers;
\* otherwise the first of the caller's writers that matches decides (the
\* result is tagged with its tag), then the first built-in writer, then the
\* structural rules (the result is not a tagged value), then the default
\* handler (the result is the encoding of what it returns, or its error).
C7_DispatchOrder ==
    \A i \in 1..Len(log) :
        IsCall(i, "to_terms") =>
            LET c == log[i].call
                obj == c.arg
                r == log[i].result
                own == Matching(obj, c.writers)
                builtin == Matching(obj, DEFAULT_WRITERS)
                d == ApplyDefaultHandler(c.default, obj)
            IN  IF IsSymbolOrKeyword(obj) THEN r = Ok(obj)
                ELSE IF own # {} THEN IsTaggedWith(r, c.writers[First(own)].tag)
                ELSE IF builtin # {}
                THEN IsTaggedWith(r, DEFAULT_WRITERS[First(builtin)].tag)
                ELSE IF isinstance(obj, StructuralTypes)
                THEN r.ok => ~IsTaggedValue(r.val)
                ELSE r = IF d.ok THEN to_terms(d.val, c.writers, c.default, c.order)
                         ELSE d

\* A namedtuple with a writer of its own listed after a writer for tuples:
\* the tuple writer is first and wins, over the structural tuple rule too.
C7_Witness ==
    /\ Len(log) = 1
    /\ log[1].call.arg = Point(PyInt("2"), PyInt("3"))
    /\ log[1].call.writers = <<TupleWriter, PointWriter>>
    /\ log[1].result =
          Ok(TaggedValue(Symbol("tup"), Vector(<<PyInt("2"), PyInt("3")>>)))

\* C8: when a writer (type, tag, transform) is the first rule that matches
\* obj, to_terms returns TaggedValue(tag, e), e being to_terms of
\* transform(obj) with the writers and the default of the call.
C8_WriterReencodes ==
    \A i \in 1..Len(log) :
        (/\ IsCall(i, "to_terms")
         /\ ~IsSymbolOrKeyword(log[i].call.arg)
         /\ Matching(log[i].call.arg, log[i].call.writers \o DEFAULT_WRITERS) # {})
        => LET c == log[i].call
               ws == c.writers \o DEFAULT_WRITERS
               w == ws[First(Matching(c.arg, ws))]
               t == ApplyWriter(w.fn, c.arg)
               e == to_terms(t.val, c.writers, c.default, c.order)
           IN  (t.ok /\ e.ok) =>
                  log[i].result = termMaker("TaggedValue", <<w.tag, e.val>>)

IsCollection(x) ==
    x.k \in {"tuple", "list", "point", "set", "frozenset", "dict", "frozendict"}
\* No writer and no structural rule matches u.
Unencodable(u, writers) ==
    /\ ~IsSymbolOrKeyword(u)
    /\ Matching(u, writers \o DEFAULT_WRITERS) = {}
    /\ ~isinstance(u, StructuralTypes)
\* The unencodable values among x and what its collections hold.
RECURSIVE UnencodableIn(_, _)
UnencodableIn(x, writers) ==
    (IF Unencodable(x, writers) THEN {x} ELSE {})
    \cup (CASE x.k \in {"tuple", "list", "point"} ->
                  UNION {UnencodableIn(x.items[j], writers) : j \in 1..Len(x.items)}
            [] x.k \in {"set", "frozenset"} ->
                  UNION {UnencodableIn(m, writers) : m \in x.members}
            [] x.k \in {"dict", "frozendict"} ->
                  UNION {UnencodableIn(p[1], writers) \cup UnencodableIn(p[2], writers) :
                            p \in x.entries}
            [] OTHER -> {})
\* x with default(u) in the place of every unencodable u.
RECURSIVE Substituted(_, _, _)
Substituted(x, writers, default) ==
    IF Unencodable(x, writers) THEN ApplyDefaultHandler(default, x).val
    ELSE CASE x.k \in {"tuple", "list", "point"} ->
                  [x EXCEPT !.items = [j \in 1..Len(x.items) |->
                                          Substituted(x.items[j], writers, default)]]
           [] x.k \in {"set", "frozenset"} ->
                  [x EXCEPT !.members = {Substituted(m, writers, default) : m \in @}]
           [] x.k \in {"dict", "frozendict"} ->
                  [x EXCEPT !.entries = {<<Substituted(p[1], writers, default),
                                           Substituted(p[2], writers, default)>> : p \in @}]
           [] OTHER -> x

\* C9: when obj, or a value held at any depth by its collections, matches no
\* writer and no structural rule, to_terms without a default of the caller's
\* raises ValueError about such a value, and to_terms with a default returns
\* the encoding of obj with default(value) in the place of each such value.
C9_UnencodableValues ==
    \A i \in 1..Len(log) :
        (IsCall(i, "to_terms") /\ UnencodableIn(log[i].call.arg, log[i].call.writers) # {})
        => LET c == log[i].call
               r == log[i].result
               s == Substituted(c.arg, c.writers, c.default)
           IN  IF c.default = "_default_handler"
               THEN ~r.ok /\ r.exc = "ValueError"
                    /\ r.val \in UnencodableIn(c.arg, c.writers)
               ELSE \E o \in {0, 1} :
                       r = to_terms(s, c.writers, "_default_handler", o)

\* The terms a sequence of results coerces to, as children of a term.
Children(rs) == [j \in 1..Len(rs) |-> coerceToTerm(rs[j].val).val]
Bag(seq) == [x \in Range(seq) |-> Cardinality({j \in 1..Len(seq) : seq[j] = x})]

\* C10: when no writer matches, to_terms returns String(s) for a string s,
\* Nil for None, a boolean or a float as it is, ExactFloat of its text for a
\* Decimal, List of the encodings of its items for a tuple, Vector of them
\* for a list, Set of the encodings of its members for a set or frozenset,
\* Map of the encoded (key, value) pairs for a dict: as many children as the
\* value has elements, in the order of the elements for a tuple or a list,
\* each encoded by to_terms with the writers and the default of the call.
C10_StructuralRules ==
    \A i \in 1..Len(log) :
        (/\ IsCall(i, "to_terms")
         /\ ~IsSymbolOrKeyword(log[i].call.arg)
         /\ Matching(log[i].call.arg, log[i].call.writers \o DEFAULT_WRITERS) = {})
        => LET c == log[i].call
               obj == c.arg
               r == log[i].result
               enc(x) == to_terms(x, c.writers, c.default, c.order)
               items == IF obj.k \in {"tuple", "list", "point"} THEN obj.items ELSE <<>>
               rs == [j \in 1..Len(items) |-> enc(items[j])]
               kids == IF r.ok /\ r.val.k = "Term" /\ Len(r.val.args) = 1
                       THEN r.val.args[1].args ELSE <<>>
           IN  CASE obj.k \in {"str", "unicode"} -> r = Ok(String(obj))
                 [] obj.k = "NoneType" -> r = Ok(Nil)
                 [] obj.k \in {"bool", "float"} -> r = Ok(obj)
                 [] obj.k = "Decimal" -> r = Ok(ExactFloat(PyStr(obj.v)))
                 [] obj.k \in {"tuple", "point"} ->
                       AllOk(rs) => r = Ok(List(Values(rs)))
                 [] obj.k = "list" -> AllOk(rs) => r = Ok(Vector(Values(rs)))
                 [] obj.k \in {"set", "frozenset"} ->
                       (\A m \in obj.members : enc(m).ok) =>
                          /\ r.ok /\ r.val.tag = "Set"
                          /\ Len(kids) = Cardinality(obj.members)
                          /\ \E seq \in [1..Len(kids) -> obj.members] :
                                /\ Range(seq) = obj.members
                                /\ kids = Children([j \in 1..Len(kids) |-> enc(seq[j])])
                 [] obj.k \in {"dict", "frozendict"} ->
                       (\A p \in obj.entries : enc(p[1]).ok /\ enc(p[2]).ok) =>
                          /\ r.ok /\ r.val.tag = "Map"
                          /\ Len(kids) = Cardinality(obj.entries)
                          /\ \E seq \in [1..Len(kids) -> obj.entries] :
                                /\ Range(seq) = obj.entries
                                /\ kids = [j \in 1..Len(kids) |->
                                             Term(".tuple.", None,
                                                  Children(<<enc(seq[j][1]),
                                                             enc(seq[j][2])>>))]
                 [] OTHER -> TRUE

\* A tuple holding a list of a value only the caller's default can encode.
C10_Witness ==
    /\ Len(log) = 1
    /\ log[1].call.arg = PyTuple(<<PyList(<<Custom("42")>>)>>)
    /\ log[1].call.default = "repr"
    /\ log[1].result =
          Ok(List(<<Vector(<<String(PyStr("<Custom(42)>"))>>)>>))

\* C11: to_terms of an integer, an int or a long of any magnitude, returns
\* that integer: it raises nothing and keeps the value.
C11_AnyInteger ==
    \A i \in 1..Len(log) :
        (IsCall(i, "to_terms") /\ log[i].call.arg.k \in {"int", "long"})
        => /\ log[i].result.ok
           /\ log[i].result.val.k \in {"int", "long"}
           /\ log[i].result.val.v = log[i].call.arg.v


\* The elements of a List, Vector, Set or Map term.
Elements(t) == IF Len(t.args) = 1 THEN t.args[1].args ELSE <<>>

\* v is the native value the rules of decoding give for the value t: None
\* for Nil, text for a String or a Character, a Decimal for an ExactFloat, a
\* tuple of the decoded elements for a List or a Vector, a frozenset of them
\* for a Set, a frozendict of the decoded keys and values for a Map, t
\* itself for a Symbol, a Keyword, a boolean, an integer or a float.
RECURSIVE Decodes(_, _)
Decodes(t, v) ==
    IF t.k # "Term" THEN v = t
    ELSE IF t.data # None THEN v = t.data
    ELSE CASE t.tag = "true" -> v = PyBool(TRUE)
           [] t.tag = "false" -> v = PyBool(FALSE)
           [] t.tag = "Nil" -> v = None
           [] t.tag \in {"String", "Character"} ->
                 v = PyUnicode(t.args[1].data.v)
           [] t.tag = "ExactFloat" -> Ok(v) = Decimal(<<t.args[1].data>>)
           [] t.tag \in {"Symbol", "Keyword"} -> v = t
           [] t.tag \in {"List", "Vector"} ->
                 /\ v.k = "tuple"
                 /\ Len(v.items) = Len(Elements(t))
                 /\ \A j \in 1..Len(v.items) : Decodes(Elements(t)[j], v.items[j])
           [] t.tag = "Set" ->
                 /\ v.k = "frozenset"
                 /\ \A m \in v.members : \E e \in Range(Elements(t)) : Decodes(e, m)
                 /\ \A e \in Range(Elements(t)) : \E m \in v.members : Decodes(e, m)
           [] t.tag = "Map" ->
                 /\ v.k = "frozendict"
                 /\ \A p \in v.entries : \E e \in Range(Elements(t)) :
                       Decodes(e.args[1], p[1]) /\ Decodes(e.args[2], p[2])
                 /\ \A e \in Range(Elements(t)) : \E p \in v.entries :
                       Decodes(e.args[1], p[1])
           [] OTHER -> FALSE

\* C12: from_terms of a value that holds no tagged value returns the native
\* value the rules of decoding give for it, at any nesting depth.
C12_DecodeRules ==
    \A i \in 1..Len(log) :
        (IsCall(i, "from_terms") /\ TagsIn(log[i].call.arg) = {})
        => /\ log[i].result.ok
           /\ Decodes(log[i].call.arg, log[i].result.val)

----------------------------------------------------------------------------
(* Properties of the printer and the parser.                               *)

\* Structural equality of two values: the same variant and equal payloads,
\* the elements of a Set or a Map in any order.
RECURSIVE ValueEq(_, _)
ValueEq(a, b) ==
    IF a.k # "Term" \/ b.k # "Term"
    THEN /\ a.k = b.k \/ {a.k, b.k} = {"int", "long"} \/ {a.k, b.k} = {"str", "unicode"}
         /\ PyEq(a, b)
    ELSE /\ a.tag = b.tag
         /\ Len(a.args) = Len(b.args)
         /\ (a.data = None) = (b.data = None)
         /\ a.data # None => ValueEq(a.data, b.data)
         /\ IF a.tag \in {"Set", "Map"} /\ Len(a.args) = 1
            THEN LET x == a.args[1].args
                     y == b.args[1].args
                 IN  /\ Len(x) = Len(y)
                     /\ \E f \in Permutations(1..Len(x)) :
                           \A i \in 1..Len(x) : ValueEq(x[i], y[f[i]])
            ELSE \A i \in 1..Len(a.args) : ValueEq(a.args[i], b.args[i])

\* C1: for every value v that parse returns, unparse(v) is a text that parse
\* takes, and the value parse returns for it is structurally equal to v.
C1_RoundTrip ==
    \A i \in 1..Len(log) :
        (IsCall(i, "parse") /\ log[i].result.ok)
        => /\ (IsCall(i + 1, "unparse") /\ log[i + 1].call.arg = log[i].result.val)
              => log[i + 1].result.ok
           /\ (/\ IsCall(i + 1, "unparse")
               /\ log[i + 1].call.arg = log[i].result.val
               /\ IsCall(i + 2, "parse")
               /\ log[i + 2].call.arg = log[i + 1].result.val)
              => /\ log[i + 2].result.ok
                 /\ ValueEq(log[i + 2].result.val, log[i].result.val)

\* The values a value holds, at any depth, and the value itself.
RECURSIVE SubValues(_)
SubValues(t) ==
    {t} \cup
    (IF t.k # "Term" THEN {}
     ELSE IF t.tag \in {"List", "Vector", "Set"}
     THEN UNION {SubValues(e) : e \in Range(Elements(t))}
     ELSE IF t.tag = "Map"
     THEN UNION {SubValues(e.args[1]) \cup SubValues(e.args[2]) : e \in Range(Elements(t))}
     ELSE IF IsTaggedValue(t) THEN SubValues(t.args[2])
     ELSE {})

\* The values a collection prints between its brackets: its elements, or
\* the key and then the value of each of a Map's pairs.
RECURSIVE Flat(_)
Flat(pairs) ==
    IF pairs = <<>> THEN <<>>
    ELSE <<Head(pairs).args[1], Head(pairs).args[2]>> \o Flat(Tail(pairs))
Contents(t) == IF t.tag = "Map" THEN Flat(Elements(t)) ELSE Elements(t)
PrintedTexts(vs) == [j \in 1..Len(vs) |-> unparse(vs[j]).val.v]
Opening(t) ==
    CASE t.tag = "List" -> "(" [] t.tag = "Vector" -> "[" [] t.tag = "Set" -> "#{"
      [] t.tag = "Map" -> "{"
Closing(t) ==
    CASE t.tag = "List" -> ")" [] t.tag = "Vector" -> "]" [] OTHER -> "}"
SymbolText(sym) ==
    IF Len(sym.args) = 2
    THEN sym.args[2].data.v \o "/" \o sym.args[1].data.v
    ELSE sym.args[1].data.v

\* C13: for every value v that unparse is handed, and every value v holds
\* at any depth: a List, Vector, Set or Map prints as its brackets around
\* the texts of its contents joined by one space (the brackets alone when
\* it is empty), and a TaggedValue as # and the text of its tag symbol, one
\* space, and the text of its payload.
C13_CollectionsPrinted ==
    \A i \in 1..Len(log) :
        (IsCall(i, "unparse") /\ log[i].result.ok)
        => \A t \in SubValues(log[i].call.arg) :
              /\ (t.k = "Term" /\ t.tag \in {"List", "Vector", "Set", "Map"})
                 => unparse(t) =
                       Ok(PyStr(Opening(t) \o Join(PrintedTexts(Contents(t)), " ")
                                \o Closing(t)))
              /\ IsTaggedValue(t)
                 => unparse(t) =
                       Ok(PyStr("#" \o SymbolText(t.args[1]) \o " "
                                \o unparse(t.args[2]).val.v))

\* A Map printed whose keys and values are collections.
C13_Witness ==
    /\ \E i \in 1..Len(log) :
          /\ IsCall(i, "unparse")
          /\ log[i].call.arg.k = "Term" /\ log[i].call.arg.tag = "Map"
          /\ log[i].result = Ok(PyStr("{[1] {2 3} (4 5 6) 7}"))

\* The characters a printed string escapes, each with the letter of its
\* two-character escape.
EscapeLetters ==
    <<<<"\"", "\"">>, <<"\\", "\\">>, <<"\n", "n">>, <<"\r", "r">>, <<"\t", "t">>,
      <<Backspace, "b">>, <<"\f", "f">>>>
EscapeOf(c) ==
    IF \E j \in 1..Len(EscapeLetters) : EscapeLetters[j][1] = c
    THEN "\\" \o EscapeLetters[CHOOSE j \in 1..Len(EscapeLetters) :
                                 EscapeLetters[j][1] = c][2]
    ELSE c
RECURSIVE EscapedText(_)
EscapedText(s) == IF s = "" THEN "" ELSE EscapeOf(Head(s)) \o EscapedText(Tail(s))

\* The positions of a printed string's body where a double quote stands
\* without a backslash escaping it.
RECURSIVE BareQuotes(_, _)
BareQuotes(s, j) ==
    IF j > Len(s) THEN {}
    ELSE IF SubSeq(s, j, j) = "\\" THEN BareQuotes(s, j + 2)
    ELSE (IF SubSeq(s, j, j) = "\"" THEN {j} ELSE {}) \cup BareQuotes(s, j + 1)

IsString(t) == t.k = "Term" /\ t.tag = "String" /\ Len(t.args) = 1

\* C14: unparse of a String is a double quote, the characters of the string
\* with double quote, backslash, LF, CR, TAB, backspace and form-feed each
\* replaced by its backslash escape and every other character as it is, and
\* a double quote; the text holds no raw LF and no double quote that is not
\* escaped, and parse of the text is the String.
C14_StringsPrinted ==
    \A i \in 1..Len(log) :
        (IsCall(i, "unparse") /\ log[i].result.ok)
        => \A t \in {u \in SubValues(log[i].call.arg) : IsString(u)} :
              LET s == t.args[1].data.v
                  text == unparse(t).val.v
                  body == SubSeq(text, 2, Len(text) - 1)
              IN  /\ unparse(t) = Ok(PyStr("\"" \o EscapedText(s) \o "\""))
                  /\ \A j \in 1..Len(text) : SubSeq(text, j, j) # "\n"
                  /\ BareQuotes(body, 1) = {}
                  /\ parse(text).ok
                  /\ ValueEq(parse(text).val, t)

\* A string that holds a backspace, printed.
C14_Witness ==
    \E i \in 1..Len(log) :
        /\ IsCall(i, "unparse")
        /\ IsString(log[i].call.arg)
        /\ log[i].call.arg.args[1].data.v = "x" \o Backspace
        /\ log[i].result = Ok(PyStr("\"x\\b\""))

IsExactFloat(t) == t.k = "Term" /\ t.tag = "ExactFloat" /\ Len(t.args) = 1

\* C15: unparse of an ExactFloat is the text the ExactFloat holds, as the
\* literal or the Decimal gave it, followed by M.
C15_ExactFloatPrinted ==
    \A i \in 1..Len(log) :
        (IsCall(i, "unparse") /\ log[i].result.ok)
        => \A t \in {u \in SubValues(log[i].call.arg) : IsExactFloat(u)} :
              unparse(t) = Ok(PyStr(t.args[1].data.v \o "M"))

\* C15, as the claim has it: the text unparse gives for an ExactFloat is
\* digits with a decimal point among them, followed by M.
C15_ExplicitDecimalPoint ==
    \A i \in 1..Len(log) :
        (IsCall(i, "unparse") /\ log[i].result.ok)
        => \A t \in {u \in SubValues(log[i].call.arg) : IsExactFloat(u)} :
              LET text == unparse(t).val.v
              IN  /\ SubSeq(text, Len(text), Len(text)) = "M"
                  /\ \E j \in 1..Len(text) : SubSeq(text, j, j) = "."

\* The ExactFloat of the literal 32M, printed.
C15_Witness ==
    \E i \in 1..Len(log) :
        /\ IsCall(i, "unparse")
        /\ log[i].call.arg = ExactFloat(PyStr("32"))
        /\ log[i].result = Ok(PyStr("32M"))

\* C16: when parse has returned an integer for a literal and unparse prints
\* that integer, the text ends with N if and only if the literal did.
C16_SuffixOnlyIfMarked ==
    \A i \in 1..Len(log) :
        (/\ IsCall(i, "parse")
         /\ log[i].result.ok
         /\ log[i].result.val.k \in {"int", "long"}
         /\ IsCall(i + 1, "unparse")
         /\ log[i + 1].call.arg = log[i].result.val)
        => LET source == log[i].call.arg.v
               text == log[i + 1].result.val.v
           IN  /\ log[i + 1].result.ok
               /\ (SubSeq(text, Len(text), Len(text)) = "N")
                  <=> (\E j \in 1..Len(source) : SubSeq(source, j, j) = "N")

----------------------------------------------------------------------------
(* Properties of the streams.                                              *)

RECURSIVE Occurrences(_, _)
Occurrences(c, s) ==
    IF s = "" THEN 0
    ELSE (IF Head(s) = c THEN 1 ELSE 0) + Occurrences(c, Tail(s))

\* The printed texts of values, each followed by one line feed.
RECURSIVE Lines(_)
Lines(vs) ==
    IF vs = <<>> THEN "" ELSE unparse(Head(vs)).val.v \o "\n" \o Lines(Tail(vs))

IsWrite(i) == IsCall(i, "unparse_stream") \/ IsCall(i, "dump")

\* C17: unparse_stream and dump write, for each value in input order, its
\* printed text followed by exactly one line feed and nothing else, so the
\* number of line feeds written is the number of values, whatever the
\* values are.
C17_OneLinePerValue ==
    \A i \in 1..Len(log) :
        (IsWrite(i) /\ log[i].result.ok)
        => /\ IsCall(i, "unparse_stream")
              => output_stream = Lines(log[i].call.arg.items)
           /\ Occurrences("\n", output_stream) = Len(log[i].call.arg.items)

\* The top-level forms of a source, in source order, and whether the source
\* is nothing but forms and separators.
RECURSIVE TopLevelForms(_)
FormsThen(f) == IF f.ok THEN <<f.val>> \o TopLevelForms(f.rest) ELSE <<>>
FormsBehind(w) == IF w.ok /\ w.rest # "" THEN FormsThen(form(w.rest)) ELSE <<>>
TopLevelForms(s) == FormsBehind(sep(s))

RECURSIVE WellFormed(_)
WellFormedThen(f) == f.ok /\ WellFormed(f.rest)
WellFormedBehind(w) == w.ok /\ (w.rest = "" \/ WellFormedThen(form(w.rest)))
WellFormed(s) == WellFormedBehind(sep(s))

IsStream(fn) == IsCall(1, fn) /\ generator.fn = fn
IsRequest(i) == i \in 2..Len(log) /\ IsCall(i, "next")

\* What request j of an iterator over the forms fs gives when there is one
\* value per form: the value of form j, then the end of the sequence.
OnePerForm(fs, j, r) ==
    IF j > Len(fs) THEN r = StopIteration
    ELSE IF generator.fn = "load"
    THEN r.ok /\ r = from_terms(BuiltinReaders, fs[j], NoReaders, "None")
    ELSE r = Ok(fs[j])

\* C18: parse_stream and load yield exactly one value per top-level form of
\* the source, in source order, and then signal the end of the sequence;
\* every later request signals the end again and yields nothing.
C18_OneValuePerForm ==
    \A i \in 2..Len(log) :
        (IsRequest(i) /\ WellFormed(input_stream.data))
        => OnePerForm(TopLevelForms(input_stream.data), i - 1, log[i].result)

\* C19: the stream reader is lazy: a request reads from the source only as
\* much as completes the form it yields, so while forms are still to be
\* yielded the source has not been read to its end.
C19_ReadsOnDemand ==
    (/\ Len(log) >= 2
     /\ IsRequest(Len(log))
     /\ Last.result.ok
     /\ WellFormed(input_stream.data)
     /\ Len(log) - 1 < Len(TopLevelForms(input_stream.data)))
    => input_stream.position < Len(input_stream.data)

\* A source that ends within a form: it is not forms and separators, and
\* some closing text makes it so.
Completions == {"]", ")", "}", "\"", " 1", " 1}"}
CutOff(s) == ~WellFormed(s) /\ \E c \in Completions : WellFormed(s \o c)

ParseFailed(i) == IsRequest(i) /\ log[i].result.exc = "ParseError"

\* C20: a source that ends with no form cut off (an empty source, one of
\* separators only, one with separators after its last form) ends the
\* sequence with no parse failure; a source that ends within a form gives
\* a parse failure and never a clean end.
C20_EndOfSource ==
    \A i \in 2..Len(log) :
        IsRequest(i)
        => /\ WellFormed(input_stream.data) => ~ParseFailed(i)
           /\ (CutOff(input_stream.data) /\ log[i].result = StopIteration)
              => \E j \in 2..(i - 1) : ParseFailed(j)

----------------------------------------------------------------------------
(* Properties of parsed and encoded values.                                *)

\* C21: the values parsed from two set literals that hold the same elements
\* in different orders are equal (==), and so are the values parsed from
\* two map literals that hold the same pairs in different orders.
C21_OrderIrrelevant ==
    \A i \in 1..Len(log) :
        (/\ IsCall(i, "parse")
         /\ IsCall(i + 1, "parse")
         /\ log[i + 1].call.arg.v \in Reorderings(log[i].call.arg.v)
         /\ log[i].result.ok)
        => /\ log[i + 1].result.ok
           /\ PyEq(log[i].result.val, log[i + 1].result.val)

\* The number of elements a collection of n forms holds: a map holds pairs.
Holds(b, n) == IF b[1] = "{" THEN n \div 2 ELSE n

\* What parse gives for a collection of the forms s with one more form
\* discarded: the collection of the forms s.
WithoutDiscarded(b, s, r) ==
    IF b[1] = "{" /\ Len(s) % 2 = 1 THEN ~r.ok
    ELSE /\ r.ok
         /\ r = parse(Collection(b, s))
         /\ Len(Elements(r.val)) = Holds(b, Len(s))

\* C22: a discard, #_ and a well-formed form, adds no element to the parsed
\* collection at any position of any collection, the other elements keep
\* their order; when the form behind #_ is not well-formed the parse fails.
C22_Discard ==
    \A i \in 1..Len(log) :
        IsCall(i, "parse")
        => \A b \in Brackets, s \in DiscardSeqs :
              \A k \in 0..Len(s) :
                 /\ \A d \in DiscardedForms :
                       log[i].call.arg.v = DiscardText(b, s, k, d)
                       => WithoutDiscarded(b, s, log[i].result)
                 /\ \A d \in MalformedForms :
                       log[i].call.arg.v = DiscardText(b, s, k, d)
                       => ~log[i].result.ok

\* A vector of two elements parsed with a form discarded between them.
C22_Witness ==
    /\ IsCall(1, "parse")
    /\ log[1].call.arg.v = "[1 #_[x] nil]"
    /\ log[1].result = Ok(Vector(<<PyInt("1"), Nil>>))

\* The integer part of a number literal has a leading zero: a zero before
\* another digit, behind the sign.
Unsigned(t) == IF t # "" /\ Head(t) \in {"+", "-"} THEN Tail(t) ELSE t
LeadingZero(t) ==
    Len(Unsigned(t)) >= 2 /\ Head(Unsigned(t)) = "0"
    /\ Head(Tail(Unsigned(t))) \in Digits
EndsIn(t, c) == t # "" /\ SubSeq(t, Len(t), Len(t)) = c
IsRule(i) == IsCall(i, "integer") \/ IsCall(i, "float")

\* C23: the integer rule and the float rule both reject a literal whose
\* integer part has a leading zero; a literal ending in M that is accepted
\* is an ExactFloat and never a float; the float rule rejects a bare
\* integer and the integer rule accepts it; 10000N is the integer 10000;
\* and parse takes a number literal as the rule that accepts it does.
C23_NumberBoundaries ==
    \A i \in 1..Len(log) :
        IsRule(i)
        => LET t == log[i].call.arg.v
               r == log[i].result
           IN  /\ LeadingZero(t) => ~r.ok
               /\ (EndsIn(t, "M") /\ r.ok)
                  => IsCall(i, "float") /\ IsExactFloat(r.val)
               /\ (EndsIn(t, "M") /\ IsCall(i, "float")) => (r.ok <=> ~LeadingZero(t))
               /\ t \in {"4", "10", "0", "-10"}
                  => (r.ok <=> IsCall(i, "integer"))
               /\ (t = "4" /\ IsCall(i, "integer")) => r = Ok(PyInt("4"))
               /\ (t = "10000N" /\ IsCall(i, "integer"))
                  => r.ok /\ r.val.k \in {"int", "long"} /\ r.val.v = "10000"
               /\ r.ok => parse(t) = r
               /\ (parse(t).ok /\ ~r.ok)
                  => ApplyRule(IF IsCall(i, "integer") THEN "float" ELSE "integer",
                               t) = parse(t)

\* The float rule has rejected 04M, a literal with a leading zero.
C23_Witness ==
    /\ IsCall(1, "float")
    /\ log[1].call.arg.v = "04M"
    /\ ~log[1].result.ok

IsPrint(i) == IsCall(i, "unparse") \/ IsCall(i, "dumps")

\* C24: whenever unparse or dumps returns a text, the text is valid edn:
\* parse accepts it as exactly one top-level form.
C24_PrintedTextParses ==
    \A i \in 1..Len(log) :
        (/\ IsPrint(i)
         /\ log[i].result.ok
         /\ IsCall(i + 1, "parse")
         /\ log[i + 1].call.arg = log[i].result.val)
        => log[i + 1].result.ok

\* The elements of a Set, or the keys of a Map, are pairwise different.
Keys(t) == [i \in 1..Len(Elements(t)) |-> Elements(t)[i].args[1]]
Distinct(vs) ==
    \A i \in 1..Len(vs), j \in 1..Len(vs) : i # j => ~ValueEq(vs[i], vs[j])
NoDuplicates(t) ==
    /\ (t.k = "Term" /\ t.tag = "Set") => Distinct(Elements(t))
    /\ (t.k = "Term" /\ t.tag = "Map") => Distinct(Keys(t))

\* C25: every Set that parse or to_terms produces, at any depth, holds no
\* two equal elements, and every Map no two equal keys.
C25_NoDuplicates ==
    \A i \in 1..Len(log) :
        ((IsCall(i, "parse") \/ IsCall(i, "to_terms")) /\ log[i].result.ok)
        => \A t \in SubValues(log[i].result.val) : NoDuplicates(t)

\* The same for parse alone, and for to_terms alone.
C25_NoDuplicatesParsed ==
    \A i \in 1..Len(log) :
        (IsCall(i, "parse") /\ log[i].result.ok)
        => \A t \in SubValues(log[i].result.val) : NoDuplicates(t)
C25_NoDuplicatesEncoded ==
    \A i \in 1..Len(log) :
        (IsCall(i, "to_terms") /\ log[i].result.ok)
        => \A t \in SubValues(log[i].result.val) : NoDuplicates(t)

\* What request j of a generator gives.
RECURSIVE Requested(_, _)
Requested(step, j) ==
    IF j = 0 THEN step.result
    ELSE Requested(iterGrammar(step.generator, step.input_stream), j - 1)
AtOnce(text, j) ==
    Requested(iterGrammar(Generator("parse_stream"), StringIO(text)), j - 1)
SameOutcome(a, b) == a.ok = b.ok /\ a.exc = b.exc /\ (a.ok => a.val = b.val)

\* C26: what parse_stream yields depends on the text of the source only and
\* not on how the reads split it: each request gives what it gives when
\* the whole text comes in one read.
C26_SplitIrrelevant ==
    \A i \in 2..Len(log) :
        (IsRequest(i) /\ generator.fn = "parse_stream")
        => SameOutcome(log[i].result, AtOnce(input_stream.data, i - 1))

\* What request j gives when the forms fs before a malformed form are
\* yielded and the failure is raised after them.
FailureInTurn(fs, j, r) ==
    /\ j <= Len(fs) => r = Ok(fs[j])
    /\ j = Len(fs) + 1 => r.exc = "ParseError"

\* C27: when the first k forms of the source are well-formed and the next
\* is malformed, parse_stream yields the k values in order and raises the
\* parse failure only at the request after them.
C27_FailureInTurn ==
    \A i \in 2..Len(log) :
        (/\ IsRequest(i)
         /\ generator.fn = "parse_stream"
         /\ input_stream.cuts = {}
         /\ ~WellFormed(input_stream.data))
        => FailureInTurn(TopLevelForms(input_stream.data), i - 1, log[i].result)

\* C28: to_terms terminates for every native value and every default, with
\* a value or with an encoding error (ValueError), also for a default that
\* returns its own argument.
C28_EncodeTerminates ==
    \A i \in 1..Len(log) :
        IsCall(i, "to_terms")
        => log[i].result.ok \/ log[i].result.exc = "ValueError"

\* dumps(obj) follows loads(text), and obj is what loads returned.
IsDumpsOfLoaded(i) ==
    /\ IsCall(i, "loads")
    /\ log[i].result.ok
    /\ IsCall(i + 1, "dumps")
    /\ log[i + 1].call.arg = log[i].result.val

\* C29: dumps accepts every value loads returns with the default readers
\* and no default handler, and dumps(loads(text)) returns text.
C29_DumpsOfLoads ==
    \A i \in 1..Len(log) :
        IsDumpsOfLoaded(i)
        => /\ log[i + 1].result.ok
           /\ log[i + 1].result.val = log[i].call.arg

\* The members a decoded set or mapping holds.
Members(x) ==
    CASE x.k \in {"set", "frozenset"} -> Cardinality(x.members)
      [] x.k \in {"dict", "frozendict"} -> Cardinality(x.entries)
      [] OTHER -> 0

\* C30: from_terms keeps distinct members distinct: a Set of n pairwise
\* different elements decodes to a set of n elements, a Map of n pairwise
\* different keys to a mapping of n entries.
C30_DistinctMembers ==
    \A i \in 1..Len(log) :
        (/\ IsCall(i, "from_terms")
         /\ log[i].result.ok
         /\ log[i].call.arg.k = "Term"
         /\ log[i].call.arg.tag \in {"Set", "Map"}
         /\ NoDuplicates(log[i].call.arg))
        => Members(log[i].result.val) =
              Len(Elements(log[i].call.arg))

====
